---- MODULE Spec2Model ----
(***************************************************************************)
(* Verification model of the unit conversion layer of the repository       *)
(* (src/unit_converter.py): the SI-unit, unit and conversion-factor tables *)
(* built by UnitConverter.__init__, and the operations convert_to_si and   *)
(* convert_from_si with their temperature and gauge-pressure helpers.      *)
(*                                                                         *)
(* Python floats are modelled by exact rational numbers (a signed          *)
(* numerator and a positive denominator, both of unbounded size), and the  *)
(* arithmetic of the source is carried out on them operation by operation, *)
(* in the order Python evaluates it.  Rounding of IEEE doubles is not      *)
(* modelled: equalities of values below are equalities of the exact        *)
(* results of the source's expressions.                                    *)
(***************************************************************************)
EXTENDS Integers, Sequences, FiniteSets, TLC

----------------------------------------------------------------------------
(* Unbounded naturals: little-endian sequences of limbs in base 10000,     *)
(* without a most-significant zero limb; zero is the empty sequence.       *)

\* the limb base, 10^4
Base == 10 * 10 * 10 * 10

RECURSIVE NatTrim(_)
NatTrim(a) ==
    IF a = <<>> THEN a
    ELSE IF a[Len(a)] = 0 THEN NatTrim(SubSeq(a, 1, Len(a) - 1)) ELSE a

RECURSIVE NatOfInt(_)
NatOfInt(i) ==
    IF i = 0 THEN <<>> ELSE <<i % Base>> \o NatOfInt(i \div Base)

Limb(a, i) == IF i <= Len(a) THEN a[i] ELSE 0

RECURSIVE AddFrom(_, _, _, _)
AddFrom(a, b, i, carry) ==
    IF i > Len(a) /\ i > Len(b)
    THEN (IF carry = 0 THEN <<>> ELSE <<carry>>)
    ELSE LET s == Limb(a, i) + Limb(b, i) + carry
         IN  <<s % Base>> \o AddFrom(a, b, i + 1, s \div Base)

NatAdd(a, b) == NatTrim(AddFrom(a, b, 1, 0))

RECURSIVE SubFrom(_, _, _, _)
SubFrom(a, b, i, borrow) ==
    IF i > Len(a) THEN <<>>
    ELSE LET s == Limb(a, i) - Limb(b, i) - borrow
         IN  IF s < 0 THEN <<s + Base>> \o SubFrom(a, b, i + 1, 1)
                      ELSE <<s>> \o SubFrom(a, b, i + 1, 0)

\* a - b for a >= b
NatSub(a, b) == NatTrim(SubFrom(a, b, 1, 0))

RECURSIVE LessAt(_, _, _)
LessAt(a, b, i) ==
    IF i = 0 THEN FALSE
    ELSE IF a[i] # b[i] THEN a[i] < b[i] ELSE LessAt(a, b, i - 1)

NatLess(a, b) ==
    IF Len(a) # Len(b) THEN Len(a) < Len(b) ELSE LessAt(a, b, Len(a))

RECURSIVE MulLimbFrom(_, _, _, _)
MulLimbFrom(a, m, i, carry) ==
    IF i > Len(a)
    THEN (IF carry = 0 THEN <<>> ELSE <<carry>>)
    ELSE LET p == a[i] * m + carry
         IN  <<p % Base>> \o MulLimbFrom(a, m, i + 1, p \div Base)

NatShift(a, k) == IF a = <<>> THEN a ELSE [j \in 1..k |-> 0] \o a

RECURSIVE MulFrom(_, _, _)
MulFrom(a, b, j) ==
    IF j > Len(b) THEN <<>>
    ELSE AddFrom(NatShift(MulLimbFrom(a, b[j], 1, 0), j - 1),
                 MulFrom(a, b, j + 1), 1, 0)

NatMul(a, b) == NatTrim(MulFrom(a, b, 1))

RECURSIVE SmallPow10(_)
SmallPow10(e) == IF e = 0 THEN 1 ELSE 10 * SmallPow10(e - 1)

\* 10^e for e >= 0
NatPow10(e) == NatShift(<<SmallPow10(e % 4)>>, e \div 4)

(* Signed integers: a sign and a magnitude; zero is never negative.        *)
IntOf(neg, mag) == [neg |-> neg /\ mag # <<>>, mag |-> mag]

IntOfInt(i) == IF i < 0 THEN IntOf(TRUE, NatOfInt(-i)) ELSE IntOf(FALSE, NatOfInt(i))

IntNeg(x) == IntOf(~x.neg, x.mag)

IntAdd(x, y) ==
    IF x.neg = y.neg THEN IntOf(x.neg, NatAdd(x.mag, y.mag))
    ELSE IF NatLess(x.mag, y.mag) THEN IntOf(y.neg, NatSub(y.mag, x.mag))
    ELSE IntOf(x.neg, NatSub(x.mag, y.mag))

IntMul(x, y) == IntOf(x.neg # y.neg, NatMul(x.mag, y.mag))

(* Rationals: num / den with den > 0.  Common factors of the base are      *)
(* cancelled; two rationals are compared with RatEq.                       *)
RECURSIVE RatOf(_, _)
RatOf(num, den) ==
    IF num.mag = <<>> THEN [num |-> num, den |-> <<1>>]
    ELSE IF num.mag[1] = 0 /\ den[1] = 0
         THEN RatOf(IntOf(num.neg, Tail(num.mag)), Tail(den))
         ELSE [num |-> num, den |-> den]

\* m * 10^e for a machine integer m: the value of a decimal literal
Sci(m, e) ==
    IF e >= 0 THEN RatOf(IntMul(IntOfInt(m), IntOf(FALSE, NatPow10(e))), <<1>>)
    ELSE RatOf(IntOfInt(m), NatPow10(-e))

RatAdd(x, y) ==
    IF x.den = y.den THEN RatOf(IntAdd(x.num, y.num), x.den)
    ELSE RatOf(IntAdd(IntMul(x.num, IntOf(FALSE, y.den)),
                      IntMul(y.num, IntOf(FALSE, x.den))),
               NatMul(x.den, y.den))

RatNeg(x) == [num |-> IntNeg(x.num), den |-> x.den]

RatSub(x, y) == RatAdd(x, RatNeg(y))

RatMul(x, y) == RatOf(IntMul(x.num, y.num), NatMul(x.den, y.den))

\* x / y for y # 0
RatDiv(x, y) ==
    RatOf(IntMul(x.num, IntOf(y.num.neg, y.den)), NatMul(x.den, y.num.mag))

RatEq(x, y) ==
    IntMul(x.num, IntOf(FALSE, y.den)) = IntMul(y.num, IntOf(FALSE, x.den))

RatLess(x, y) ==
    LET l == IntMul(x.num, IntOf(FALSE, y.den))
        r == IntMul(y.num, IntOf(FALSE, x.den))
        d == IntAdd(l, IntNeg(r))
    IN  d.neg

----------------------------------------------------------------------------
(* Values of the conversion-factor table: a float, or a str marker.        *)
Float(x) == [kind |-> "float", val |-> x]

Marker(s) == [kind |-> "str", val |-> s]

\* isinstance(factor, str)
IsStr(factor) == factor.kind = "str"

\* unit.strip() is empty
BlankStrings == {"", " ", "  "}

\* the dict literal _get_unit_conversion_factors returns
conversion_factors_literal ==
    "sqm" :> Float(Sci(1, 0)) @@ "sqft" :> Float(Sci(92903, -6)) @@ "sqcm" :> Float(Sci(1, -4)) @@
    "sqin" :> Float(Sci(64516, -8)) @@ "sqmile" :> Float(Sci(258998811, -2)) @@ "sqmm" :> Float(Sci(1, -6)) @@
    "kg" :> Float(Sci(1, 0)) @@ "lb" :> Float(Sci(453592, -6)) @@ "gm" :> Float(Sci(1, -3)) @@
    "ton" :> Float(Sci(1, 3)) @@ "Mlb" :> Float(Sci(453592, 0)) @@ "tonne" :> Float(Sci(1, 3)) @@
    "L-ton" :> Float(Sci(101605, -2)) @@ "MMlb" :> Float(Sci(453592, 3)) @@ "sec" :> Float(Sci(1, 0)) @@
    "hr" :> Float(Sci(36, 2)) @@ "day" :> Float(Sci(864, 2)) @@ "min" :> Float(Sci(6, 1)) @@
    "year" :> Float(Sci(31536, 3)) @@ "month" :> Float(Sci(2628, 3)) @@ "week" :> Float(Sci(6048, 2)) @@
    "nsec" :> Float(Sci(1, -9)) @@ "oper-year" :> Float(Sci(283824, 2)) @@ "K" :> Float(Sci(1, 0)) @@
    "C" :> Marker("C_to_K") @@ "F" :> Marker("F_to_K") @@ "R" :> Float(Sci(555556, -6)) @@
    "N/sqm" :> Float(Sci(1, 0)) @@ "PsIa" :> Float(Sci(689476, -2)) @@ "atm" :> Float(Sci(101325, 0)) @@
    "lbf/sqft" :> Float(Sci(478803, -4)) @@ "bar" :> Float(Sci(1, 5)) @@ "torr" :> Float(Sci(133322, -3)) @@
    "in-water" :> Float(Sci(249089, -3)) @@ "kg/sqcm" :> Float(Sci(980665, -1)) @@ "mmHg" :> Float(Sci(133322, -3)) @@
    "kPa" :> Float(Sci(1, 3)) @@ "mm-water" :> Float(Sci(980665, -5)) @@ "mbar" :> Float(Sci(1, 2)) @@
    "psig" :> Marker("psig_to_Pa") @@ "atmg" :> Marker("atmg_to_Pa") @@ "barg" :> Marker("barg_to_Pa") @@
    "pa" :> Float(Sci(1, 0)) @@ "MiPa" :> Float(Sci(1, 6)) @@ "Pag" :> Marker("Pag_to_Pa") @@
    "kPag" :> Marker("kPag_to_Pa") @@ "MPag" :> Marker("MPag_to_Pa") @@ "mbarg" :> Marker("mbarg_to_Pa") @@
    "psi" :> Float(Sci(689476, -2)) @@ "bara" :> Float(Sci(1, 5)) @@ "J" :> Float(Sci(1, 0)) @@
    "Btu" :> Float(Sci(105506, -2)) @@ "cal" :> Float(Sci(4184, -3)) @@ "kcal" :> Float(Sci(4184, 0)) @@
    "kWhr" :> Float(Sci(36, 5)) @@ "ft-lbf" :> Float(Sci(135582, -5)) @@ "GJ" :> Float(Sci(1, 9)) @@
    "kJ" :> Float(Sci(1, 3)) @@ "N-m" :> Float(Sci(1, 0)) @@ "MJ" :> Float(Sci(1, 6)) @@
    "Mcal" :> Float(Sci(4184, 3)) @@ "Gcal" :> Float(Sci(4184, 6)) @@ "Mbtu" :> Float(Sci(105506, 4)) @@
    "MMBtu" :> Float(Sci(105506, 7)) @@ "hp-hr" :> Float(Sci(268452, 1)) @@ "MMkcal" :> Float(Sci(4184, 9)) @@
    "Mmkcal" :> Float(Sci(4184, 12)) @@ "Pcu" :> Float(Sci(105506, -2)) @@ "MMPcu" :> Float(Sci(105506, 7)) @@
    "kW-hr" :> Float(Sci(36, 5)) @@ "Watt" :> Float(Sci(1, 0)) @@ "W" :> Float(Sci(1, 0)) @@
    "hp" :> Float(Sci(7457, -1)) @@ "kW" :> Float(Sci(1, 3)) @@ "Btu/hr" :> Float(Sci(293071, -6)) @@
    "cal/sec" :> Float(Sci(4184, -3)) @@ "ft-lbf/sec" :> Float(Sci(135582, -5)) @@ "MIW" :> Float(Sci(1, 6)) @@
    "GW" :> Float(Sci(1, 9)) @@ "MJ/hr" :> Float(Sci(277778, -3)) @@ "kcal/hr" :> Float(Sci(116222, -5)) @@
    "Gcal/hr" :> Float(Sci(116222, 1)) @@ "MMBtu/hr" :> Float(Sci(293071, 0)) @@ "MBtu/hr" :> Float(Sci(293071, -3)) @@
    "Mhp" :> Float(Sci(7457, 5)) @@ "kg/sec" :> Float(Sci(1, 0)) @@ "lb/hr" :> Float(Sci(125998, -9)) @@
    "kg/hr" :> Float(Sci(277778, -9)) @@ "lb/sec" :> Float(Sci(453592, -6)) @@ "Mlb/hr" :> Float(Sci(125998, -3)) @@
    "tons/day" :> Float(Sci(115741, -7)) @@ "Mcfh" :> Float(Sci(786579, -8)) @@ "tonne/hr" :> Float(Sci(277778, -6)) @@
    "lb/day" :> Float(Sci(524991, -11)) @@ "kg/day" :> Float(Sci(115741, -10)) @@ "tons/hr" :> Float(Sci(277778, -6)) @@
    "kg/min" :> Float(Sci(166667, -7)) @@ "kg/year" :> Float(Sci(317098, -13)) @@ "gm/min" :> Float(Sci(166667, -10)) @@
    "gm/hr" :> Float(Sci(277778, -12)) @@ "gm/day" :> Float(Sci(115741, -13)) @@ "Mgm/hr" :> Float(Sci(277778, -6)) @@
    "Ggm/hr" :> Float(Sci(277778, -3)) @@ "Mgm/day" :> Float(Sci(115741, -7)) @@ "Ggm/day" :> Float(Sci(115741, -4)) @@
    "lb/min" :> Float(Sci(755987, -8)) @@ "MMlb/hr" :> Float(Sci(125998, 0)) @@ "Mlb/day" :> Float(Sci(524991, -5)) @@
    "MMlb/day" :> Float(Sci(524991, -2)) @@ "lb/year" :> Float(Sci(143833, -13)) @@ "Mlb/year" :> Float(Sci(143833, -10)) @@
    "MMIb/year" :> Float(Sci(143833, -7)) @@ "tons/min" :> Float(Sci(166667, -4)) @@ "Mtons/year" :> Float(Sci(317098, -4)) @@
    "MMtons/year" :> Float(Sci(317098, -1)) @@ "L-tons/min" :> Float(Sci(169333, -4)) @@ "L-tons/hr" :> Float(Sci(282222, -6)) @@
    "L-tons/day" :> Float(Sci(117593, -7)) @@ "ML-tons/year" :> Float(Sci(321507, -4)) @@ "MML-tons/year" :> Float(Sci(321507, -1)) @@
    "ktonne/year" :> Float(Sci(317098, -7)) @@ "kg/oper-year" :> Float(Sci(352775, -13)) @@ "lb/oper-year" :> Float(Sci(159891, -13)) @@
    "Mlb/oper-year" :> Float(Sci(159891, -10)) @@ "MIMIb/oper-year" :> Float(Sci(159891, -7)) @@ "Mtons/oper-year" :> Float(Sci(352775, -4)) @@
    "MMtons/oper-year" :> Float(Sci(352775, -1)) @@ "ML-tons/oper-year" :> Float(Sci(35723, -3)) @@ "MML-tons/oper-year" :> Float(Sci(35723, 0)) @@
    "ktonne/oper-year" :> Float(Sci(352775, -7)) @@ "gm/sec" :> Float(Sci(1, -3)) @@ "tons/year" :> Float(Sci(317098, -7)) @@
    "tonne/day" :> Float(Sci(115741, -7)) @@ "tonne/year" :> Float(Sci(317098, -7)) @@ "tons/oper-year" :> Float(Sci(352775, -7)) @@
    "tonne/oper-year" :> Float(Sci(352775, -7)) @@ "kmol/sec" :> Float(Sci(1, 0)) @@ "lbmol/hr" :> Float(Sci(125998, -9)) @@
    "kmol/hr" :> Float(Sci(277778, -9)) @@ "MMscfh" :> Float(Sci(783986, -9)) @@ "MMscmh" :> Float(Sci(22414, -9)) @@
    "mol/sec" :> Float(Sci(1, -3)) @@ "lbmol/sec" :> Float(Sci(453592, -6)) @@ "scmh" :> Float(Sci(22414, -9)) @@
    "bmol/day" :> Float(Sci(115741, -10)) @@ "kmol/day" :> Float(Sci(115741, -10)) @@ "MMscfd" :> Float(Sci(907407, -11)) @@
    "Mlscfd" :> Float(Sci(907407, -11)) @@ "scfm" :> Float(Sci(471947, -12)) @@ "mol/min" :> Float(Sci(166667, -10)) @@
    "kmol/khr" :> Float(Sci(277778, -9)) @@ "kmol/Mhr" :> Float(Sci(277778, -6)) @@ "mol/hr" :> Float(Sci(277778, -12)) @@
    "Mmol/hr" :> Float(Sci(277778, -6)) @@ "Mlbmol/hr" :> Float(Sci(125998, -6)) @@ "lbmol/Mhr" :> Float(Sci(125998, -6)) @@
    "lbmol/MMhr" :> Float(Sci(125998, -3)) @@ "Mscfm" :> Float(Sci(471947, -9)) @@ "scfh" :> Float(Sci(786579, -13)) @@
    "scfd" :> Float(Sci(327741, -14)) @@ "ncmh" :> Float(Sci(22414, -9)) @@ "ncmd" :> Float(Sci(933917, -12)) @@
    "ACFM" :> Float(Sci(471947, -12)) @@ "kmol/min" :> Float(Sci(166667, -7)) @@ "kmol/week" :> Float(Sci(165344, -11)) @@
    "kmol/month" :> Float(Sci(380517, -12)) @@ "kmol/year" :> Float(Sci(317098, -13)) @@ "kmol/oper-year" :> Float(Sci(352775, -13)) @@
    "lbmol/min" :> Float(Sci(755987, -8)) @@ "cum/sec" :> Float(Sci(1, 0)) @@ "m3/s" :> Float(Sci(1, 0)) @@
    "m^3/s" :> Float(Sci(1, 0)) @@ "cuft/hr" :> Float(Sci(786579, -11)) @@ "l/min" :> Float(Sci(166667, -10)) @@
    "gal/min" :> Float(Sci(630902, -10)) @@ "gal/hr" :> Float(Sci(10515, -10)) @@ "bbl/day" :> Float(Sci(184013, -11)) @@
    "cum/hr" :> Float(Sci(277778, -9)) @@ "m3/h" :> Float(Sci(277778, -9)) @@ "m^3/h" :> Float(Sci(277778, -9)) @@
    "cuft/min" :> Float(Sci(471947, -9)) @@ "bbl/hr" :> Float(Sci(441631, -10)) @@ "cuft/sec" :> Float(Sci(283168, -7)) @@
    "cum/day" :> Float(Sci(115741, -10)) @@ "cum/year" :> Float(Sci(317098, -13)) @@ "l/hr" :> Float(Sci(277778, -12)) @@
    "kbbl/day" :> Float(Sci(184013, -8)) @@ "MMcuft/hr" :> Float(Sci(786579, -5)) @@ "MMcuft/day" :> Float(Sci(327741, -6)) @@
    "Mcuft/day" :> Float(Sci(327741, -9)) @@ "l/sec" :> Float(Sci(1, -3)) @@ "l/day" :> Float(Sci(115741, -13)) @@
    "cum/min" :> Float(Sci(166667, -7)) @@ "kcum/sec" :> Float(Sci(1, 3)) @@ "kcum/hr" :> Float(Sci(277778, -6)) @@
    "kcum/day" :> Float(Sci(115741, -7)) @@ "Mcum/sec" :> Float(Sci(1, 6)) @@ "Mcum/hr" :> Float(Sci(277778, -3)) @@
    "Mcum/day" :> Float(Sci(115741, -4)) @@ "cuft/day" :> Float(Sci(327741, -12)) @@ "Mcuft/min" :> Float(Sci(471947, -6)) @@
    "Mcuft/hr" :> Float(Sci(786579, -8)) @@ "Mgal/min" :> Float(Sci(630902, -4)) @@ "MMgal/min" :> Float(Sci(630902, -1)) @@
    "Mgal/hr" :> Float(Sci(10515, -4)) @@ "MMgal/hr" :> Float(Sci(10515, -1)) @@ "Mbbl/hr" :> Float(Sci(441631, -4)) @@
    "MMbbl/hr" :> Float(Sci(441631, -1)) @@ "Mbbl/day" :> Float(Sci(184013, -5)) @@ "MMbbl/day" :> Float(Sci(184013, -2)) @@
    "cum/oper-year" :> Float(Sci(352775, -13)) @@ "cum" :> Float(Sci(1, 0)) @@ "cuft" :> Float(Sci(283168, -7)) @@
    "l" :> Float(Sci(1, -3)) @@ "cuin" :> Float(Sci(163871, -10)) @@ "gal" :> Float(Sci(378541, -8)) @@
    "bbl" :> Float(Sci(158987, -6)) @@ "cc" :> Float(Sci(1, -6)) @@ "kcum" :> Float(Sci(1, 3)) @@
    "Mcum" :> Float(Sci(1, 6)) @@ "Mcuft" :> Float(Sci(283168, -1)) @@ "MMcuft" :> Float(Sci(283168, 2)) @@
    "ml" :> Float(Sci(1, -6)) @@ "kl" :> Float(Sci(1, 0)) @@ "MMl" :> Float(Sci(1, 6)) @@
    "Mgal" :> Float(Sci(378541, -2)) @@ "MMgal" :> Float(Sci(378541, 1)) @@ "UKgal" :> Float(Sci(454609, -8)) @@
    "MUKgal" :> Float(Sci(454609, -2)) @@ "MMUKgal" :> Float(Sci(454609, 1)) @@ "Mbbl" :> Float(Sci(158987, 0)) @@
    "MMbbl" :> Float(Sci(158987, 3)) @@ "kbbl" :> Float(Sci(158987, -3)) @@ "cuyd" :> Float(Sci(764555, -6)) @@
    "m/sec" :> Float(Sci(1, 0)) @@ "ft/sec" :> Float(Sci(3048, -4)) @@ "mile/hr" :> Float(Sci(44704, -5)) @@
    "km/hr" :> Float(Sci(277778, -6)) @@ "ft/min" :> Float(Sci(508, -5)) @@ "mm/day" :> Float(Sci(115741, -13)) @@
    "mm/hr" :> Float(Sci(277778, -12)) @@ "mm/day30" :> Float(Sci(115741, -13)) @@ "in/day" :> Float(Sci(293995, -12)) @@
    "kg/cum" :> Float(Sci(1, 0)) @@ "lb/cuft" :> Float(Sci(160185, -4)) @@ "gm/cc" :> Float(Sci(1, 3)) @@
    "lb/gal" :> Float(Sci(119826, -3)) @@ "gm/cum" :> Float(Sci(1, -3)) @@ "gm/ml" :> Float(Sci(1, 3)) @@
    "lb/bbl" :> Float(Sci(285301, -5)) @@ "gm/l" :> Float(Sci(1, 0)) @@ "mg/l" :> Float(Sci(1, -3)) @@
    "mg/cc" :> Float(Sci(1, 0)) @@ "mg/cum" :> Float(Sci(1, -6)) @@ "kmol/cum" :> Float(Sci(1, 0)) @@
    "lbmol/cuft" :> Float(Sci(160185, -4)) @@ "mol/cc" :> Float(Sci(1, 3)) @@ "lbmol/gal" :> Float(Sci(119826, -3)) @@
    "mol/l" :> Float(Sci(1, 0)) @@ "mmol/cc" :> Float(Sci(1, 0)) @@ "mmol/l" :> Float(Sci(1, -3)) @@
    "cum/kmol" :> Float(Sci(1, 0)) @@ "cuft/lbmol" :> Float(Sci(62428, -6)) @@ "cc/mol" :> Float(Sci(1, -3)) @@
    "ml/mol" :> Float(Sci(1, -3)) @@ "bbl/mscf" :> Float(Sci(158987, -6)) @@ "MW" :> Float(Sci(1, 6)) @@
    "J/sec-K" :> Float(Sci(1, 0)) @@ "Btu/hr-R" :> Float(Sci(527527, -6)) @@ "cal/sec-K" :> Float(Sci(4184, -3)) @@
    "kJ/sec-K" :> Float(Sci(1, 3)) @@ "kcal/sec-K" :> Float(Sci(4184, 0)) @@ "kcal/hr-K" :> Float(Sci(116222, -5)) @@
    "Btu/hr-F" :> Float(Sci(527527, -6)) @@ "kW/k" :> Float(Sci(1, 3)) @@ "mol-fr" :> Float(Sci(1, 0)) @@
    "mass-fr" :> Float(Sci(1, 0))

\* as _get_unit_conversion_factors, but psig carrying the scalar factor of psi
conversion_factors_psig_scalar ==
    [conversion_factors_literal EXCEPT !["psig"] = Float(Sci(689476, -2))]

\* as _get_unit_conversion_factors, but K marked for special handling like
\* the other temperature units C and F
conversion_factors_kelvin_marker ==
    [conversion_factors_literal EXCEPT !["K"] = Marker("K_to_K")]

_get_unit_conversion_factors == conversion_factors_literal

hardcoded_units ==
    1 :> << "sqm", "sqft", "sqm", "sqcm", "sqin", "sqmile", "sqmm" >> @@
    2 :> << "mol-fr", "mol-fr", "mol-fr", "mass-fr" >> @@
    3 :> << "kg/cum", "lb/cuft", "gm/cc", "lb/gal", "gm/cum", "gm/ml", "lb/bbl" >> @@
    4 :> << "J", "Btu", "cal", "kcal", "kWhr", "ft-lbf", "GJ", "kJ", "N-m", "MJ", "Mcal", "Gcal", "Mbtu", "MMBtu", "hp-hr", "MMkcal" >> @@
    5 :> << "kg/sec", "lb/hr", "kg/hr", "lb/sec", "Mlb/hr", "tons/day", "Mcfh", "tonne/hr", "lb/day", "kg/day", "tons/hr", "kg/min", "kg/year", "gm/min", "gm/hr", "gm/day", "Mgm/hr", "Ggm/hr", "Mgm/day", "Ggm/day", "lb/min", "MMlb/hr", "Mlb/day", "MMlb/day", "lb/year", "Mlb/year", "MMIb/year", "tons/min", "Mtons/year", "MMtons/year", "L-tons/min", "L-tons/hr", "L-tons/day", "ML-tons/year", "MML-tons/year", "ktonne/year", "kg/oper-year", "lb/oper-year", "Mlb/oper-year", "MIMIb/oper-year", "Mtons/oper-year", "MMtons/oper-year", "ML-tons/oper-year", "MML-tons/oper-year", "ktonne/oper-year" >> @@
    6 :> << "kg/sec", "lb/hr", "kg/hr", "lb/sec", "Mlb/hr", "tons/day", "gm/sec", "tonne/hr", "lb/day", "kg/day", "tons/year", "tons/hr", "tonne/day", "tonne/year", "kg/min", "kg/year", "gm/min", "gm/hr", "gm/day", "Mgm/hr", "Ggm/hr", "Mgm/day", "Ggm/day", "lb/min", "MMlb/hr", "Mlb/day", "MMlb/day", "lb/year", "Mlb/year", "MMlb/year", "tons/min", "Mtons/year", "MMtons/year", "L-tons/min", "L-tons/hr", "L-tons/day", "ML-tons/year", "MML-tons/year", "ktonne/year", "tons/oper-year", "tonne/oper-year", "kg/oper-year", "lb/oper-year", "Mlb/oper-year", "MMlb/oper-year", "Mtons/oper-year", "MMtons/oper-year", "ML-tons/oper-year", "MML-tons/oper-year", "ktonne/oper-year" >> @@
    7 :> << "kmol/sec", "lbmol/hr", "kmol/hr", "MMscfh", "MMscmh", "mol/sec", "lbmol/sec", "scmh", "bmol/day", "kmol/day", "MMscfd", "Mlscfd", "scfm", "mol/min", "kmol/khr", "kmol/Mhr", "mol/hr", "Mmol/hr", "Mlbmol/hr", "lbmol/Mhr", "lbmol/MMhr", "Mscfm", "scfh", "scfd", "ncmh", "ncmd", "ACFM", "kmol/min", "kmol/week", "kmol/month", "kmol/year", "kmol/oper-year", "lbmol/min" >> @@
    8 :> << "cum/sec", "m3/s", "m^3/s", "cuft/hr", "l/min", "gal/min", "gal/hr", "bbl/day", "cum/hr", "m3/h", "m^3/h", "cuft/min", "bbl/hr", "cuft/sec", "cum/day", "cum/year", "l/hr", "kbbl/day", "MMcuft/hr", "MMcuft/day", "Mcuft/day", "l/sec", "l/day", "cum/min", "kcum/sec", "kcum/hr", "kcum/day", "Mcum/sec", "Mcum/hr", "Mcum/day", "ACFM", "cuft/day", "Mcuft/min", "Mcuft/hr", "MMcuft/hr", "Mgal/min", "MMgal/min", "Mgal/hr", "MMgal/hr", "Mbbl/hr", "MMbbl/hr", "Mbbl/day", "MMbbl/day", "cum/oper-year" >> @@
    9 :> << "kg", "lb", "kg", "gm", "ton", "Mlb", "tonne", "L-ton", "MMlb" >> @@
    10 :> << "Watt", "W", "hp", "kW", "Btu/hr", "cal/sec", "ft-lbf/sec", "MIW", "GW", "MJ/hr", "kcal/hr", "Gcal/hr", "MMBtu/hr", "MBtu/hr", "Mhp" >> @@
    11 :> << "N/sqm", "PsIa", "atm", "lbf/sqft", "bar", "torr", "in-water", "kg/sqcm", "mmHg", "kPa", "mm-water", "mbar", "psig", "atmg", "barg", "kg/sqcmg", "lb/ft-sqsec", "kg/m-sqsec", "pa", "MiPa", "Pag", "kPag", "MPag", "mbarg", "in-Hg", "mmHg-vac", "in-Hg-vac", "in-water-60F", "in-water-vac", "in-water-60F-vac", "in-water-g", "in-water-60F-g", "mm-water-g", "mm-water-60F-g", "psi", "mm-water-60F", "bara" >> @@
    12 :> << "K", "F", "K", "C", "R" >> @@
    13 :> << "sec", "hr", "hr", "day", "min", "year", "month", "week", "nsec", "oper-year" >> @@
    14 :> << "m/sec", "ft/sec", "m/sec", "mile/hr", "km/hr", "ft/min", "mm/day", "mm/hr", "mm/day30", "in/day" >> @@
    15 :> << "cum", "cuft", "l", "cuin", "gal", "bbl", "cc", "kcum", "Mcum", "Mcuft", "MMcuft", "ml", "kl", "MMl", "Mgal", "MMgal", "UKgal", "MUKgal", "MMUKgal", "Mbbl", "MMbbl", "kbbl", "cuyd" >> @@
    16 :> << "kmol/cum", "lbmol/cuft", "mol/cc", "lbmol/gal", "mol/l", "mmol/cc", "mmol/l" >> @@
    17 :> << "kg/cum", "lb/cuft", "gm/cc", "lb/gal", "gm/cum", "gm/ml", "gm/l", "mg/l", "mg/cc", "mg/cum" >> @@
    18 :> << "cum/kmol", "cuft/lbmol", "cc/mol", "ml/mol", "bbl/mscf" >> @@
    19 :> << "Watt", "kW", "kW", "MW", "GW" >> @@
    20 :> << "J/sec-K", "Btu/hr-R", "cal/sec-K", "kJ/sec-K", "kcal/sec-K", "kcal/hr-K", "Btu/hr-F", "kW/k" >> @@
    21 :> << "J", "hp-hr", "kW-hr", "ft-lbf", "kJ", "N-m", "MJ", "Mbtu", "MMBtu", "Mcal", "Gcal" >> @@
    22 :> << "J", "Btu", "cal", "kcal", "Mmkcal", "MMBtu", "Pcu", "MMPcu", "kJ", "GJ", "N-m", "MJ", "Mcal", "Gcal", "Mbtu", "kW-hr" >>

csv_column_to_unit_type ==
    1 :> "AREA" @@
    2 :> "COMPOSITION" @@
    3 :> "DENSITY" @@
    4 :> "ENERGY" @@
    5 :> "FLOW" @@
    6 :> "MASS-FLOW" @@
    7 :> "MOLE-FLOW" @@
    8 :> "VOLUME-FLOW" @@
    9 :> "MASS" @@
    10 :> "POWER" @@
    11 :> "PRESSURE" @@
    12 :> "TEMPERATURE" @@
    13 :> "TIME" @@
    14 :> "VELOCITY" @@
    15 :> "VOLUME" @@
    16 :> "MOLE-DENSITY" @@
    17 :> "MASS-DENSITY" @@
    18 :> "MOLE-VOLUME" @@
    19 :> "ELEC-POWER" @@
    20 :> "UA" @@
    21 :> "WORK" @@
    22 :> "HEAT"

_get_si_base_units ==
    "AREA" :> "sqm" @@
    "COMPOSITION" :> "mol-fr" @@
    "DENSITY" :> "kg/cum" @@
    "ENERGY" :> "J" @@
    "FLOW" :> "kg/sec" @@
    "MASS-FLOW" :> "kg/sec" @@
    "MOLE-FLOW" :> "kmol/sec" @@
    "VOLUME-FLOW" :> "cum/sec" @@
    "MASS" :> "kg" @@
    "POWER" :> "Watt" @@
    "PRESSURE" :> "N/sqm" @@
    "TEMPERATURE" :> "K" @@
    "TIME" :> "sec" @@
    "VELOCITY" :> "m/sec" @@
    "VOLUME" :> "cum" @@
    "MOLE-DENSITY" :> "kmol/cum" @@
    "MASS-DENSITY" :> "kg/cum" @@
    "MOLE-VOLUME" :> "cum/kmol" @@
    "ELEC-POWER" :> "Watt" @@
    "UA" :> "J/sec-K" @@
    "WORK" :> "J" @@
    "HEAT" :> "J"

_get_hardcoded_unit_table ==
    [csv_col_idx \in {c \in DOMAIN csv_column_to_unit_type : c \in DOMAIN hardcoded_units} |->
        [unit_type |-> csv_column_to_unit_type[csv_col_idx],
         units |-> [idx \in {i \in DOMAIN hardcoded_units[csv_col_idx] :
                                hardcoded_units[csv_col_idx][i] \notin BlankStrings}
                       |-> hardcoded_units[csv_col_idx][idx]]]]

\* csv_column_to_unit_type of get_hardcoded_unit_table in TEA_machine.py
TEA_csv_column_to_unit_type ==
    1 :> "AREA" @@
    2 :> "COMPOSITION" @@
    3 :> "DENSITY" @@
    4 :> "ENERGY" @@
    5 :> "FLOW" @@
    6 :> "MASS-FLOW" @@
    7 :> "MOLE-FLOW" @@
    8 :> "VOLUME-FLOW" @@
    9 :> "MASS" @@
    10 :> "POWER" @@
    11 :> "PRESSURE" @@
    12 :> "TEMPERATURE" @@
    13 :> "TIME" @@
    14 :> "VELOCITY" @@
    15 :> "VOLUME" @@
    16 :> "MOLE-DENSITY" @@
    17 :> "MASS-DENSITY" @@
    18 :> "MOLE-VOLUME" @@
    19 :> "ELEC-POWER" @@
    20 :> "UA" @@
    21 :> "WORK" @@
    22 :> "HEAT"

\* hardcoded_units of get_hardcoded_unit_table in TEA_machine.py: 51 slots a
\* column, the unused ones empty
TEA_hardcoded_units ==
    1 :> << "sqm", "sqft", "sqm", "sqcm", "sqin", "sqmile", "sqmm", "", "", "", "", "", "", "",
           "", "", "", "", "", "", "", "", "", "", "", "", "", "", "", "", "", "", "", "", "",
           "", "", "", "", "", "", "", "", "", "", "", "", "", "", "", "" >> @@
    2 :> << "mol-fr", "mol-fr", "mol-fr", "mass-fr", "", "", "", "", "", "", "", "", "", "", "",
           "", "", "", "", "", "", "", "", "", "", "", "", "", "", "", "", "", "", "", "", "",
           "", "", "", "", "", "", "", "", "", "", "", "", "", "", "" >> @@
    3 :> << "kg/cum", "lb/cuft", "gm/cc", "lb/gal", "gm/cum", "gm/ml", "lb/bbl", "", "", "", "",
           "", "", "", "", "", "", "", "", "", "", "", "", "", "", "", "", "", "", "", "", "",
           "", "", "", "", "", "", "", "", "", "", "", "", "", "", "", "", "", "", "" >> @@
    4 :> << "J", "Btu", "cal", "kcal", "kWhr", "ft-lbf", "GJ", "kJ", "N-m", "MJ", "Mcal", "Gcal",
           "Mbtu", "MMBtu", "hp-hr", "MMkcal", "", "", "", "", "", "", "", "", "", "", "", "",
           "", "", "", "", "", "", "", "", "", "", "", "", "", "", "", "", "", "", "", "", "",
           "", "" >> @@
    5 :> << "kg/sec", "lb/hr", "kg/hr", "lb/sec", "Mlb/hr", "tons/day", "Mcfh", "tonne/hr",
           "lb/day", "kg/day", "tons/hr", "kg/min", "kg/year", "gm/min", "gm/hr", "gm/day",
           "Mgm/hr", "Ggm/hr", "Mgm/day", "Ggm/day", "lb/min", "MMlb/hr", "Mlb/day", "MMlb/day",
           "lb/year", "Mlb/year", "MMIb/year", "tons/min", "Mtons/year", "MMtons/year",
           "L-tons/min", "L-tons/hr", "L-tons/day", "ML-tons/year", "MML-tons/year",
           "ktonne/year", "kg/oper-year", "lb/oper-year", "Mlb/oper-year", "MIMIb/oper-year",
           "Mtons/oper-year", "MMtons/oper-year", "ML-tons/oper-year", "MML-tons/oper-year",
           "ktonne/oper-year", "", "", "", "", "", "" >> @@
    6 :> << "kg/sec", "lb/hr", "kg/hr", "lb/sec", "Mlb/hr", "tons/day", "gm/sec", "tonne/hr",
           "lb/day", "kg/day", "tons/year", "tons/hr", "tonne/day", "tonne/year", "kg/min",
           "kg/year", "gm/min", "gm/hr", "gm/day", "Mgm/hr", "Ggm/hr", "Mgm/day", "Ggm/day",
           "lb/min", "MMlb/hr", "Mlb/day", "MMlb/day", "lb/year", "Mlb/year", "MMlb/year",
           "tons/min", "Mtons/year", "MMtons/year", "L-tons/min", "L-tons/hr", "L-tons/day",
           "ML-tons/year", "MML-tons/year", "ktonne/year", "tons/oper-year", "tonne/oper-year",
           "kg/oper-year", "lb/oper-year", "Mlb/oper-year", "MMlb/oper-year", "Mtons/oper-year",
           "MMtons/oper-year", "ML-tons/oper-year", "MML-tons/oper-year", "ktonne/oper-year", "" >> @@
    7 :> << "kmol/sec", "lbmol/hr", "kmol/hr", "MMscfh", "MMscmh", "mol/sec", "lbmol/sec",
           "scmh", "bmol/day", "kmol/day", "MMscfd", "Mlscfd", "scfm", "mol/min", "kmol/khr",
           "kmol/Mhr", "mol/hr", "Mmol/hr", "Mlbmol/hr", "lbmol/Mhr", "lbmol/MMhr", "Mscfm",
           "scfh", "scfd", "ncmh", "ncmd", "ACFM", "kmol/min", "kmol/week", "kmol/month",
           "kmol/year", "kmol/oper-year", "lbmol/min", "", "", "", "", "", "", "", "", "", "",
           "", "", "", "", "", "", "", "" >> @@
    8 :> << "cum/sec", "cuft/hr", "l/min", "gal/min", "gal/hr", "bbl/day", "cum/hr", "cuft/min",
           "bbl/hr", "cuft/sec", "cum/day", "cum/year", "l/hr", "kbbl/day", "MMcuft/hr",
           "MMcuft/day", "Mcuft/day", "l/sec", "l/day", "cum/min", "kcum/sec", "kcum/hr",
           "kcum/day", "Mcum/sec", "Mcum/hr", "Mcum/day", "ACFM", "cuft/day", "Mcuft/min",
           "Mcuft/hr", "MMcuft/hr", "Mgal/min", "MMgal/min", "Mgal/hr", "MMgal/hr", "Mbbl/hr",
           "MMbbl/hr", "Mbbl/day", "MMbbl/day", "cum/oper-year", "", "", "", "", "", "", "", "",
           "", "", "" >> @@
    9 :> << "kg", "lb", "kg", "gm", "ton", "Mlb", "tonne", "L-ton", "MMlb", "", "", "", "", "",
           "", "", "", "", "", "", "", "", "", "", "", "", "", "", "", "", "", "", "", "", "",
           "", "", "", "", "", "", "", "", "", "", "", "", "", "", "", "" >> @@
    10 :> << "Watt", "hp", "kW", "Btu/hr", "cal/sec", "ft-lbf/sec", "MIW", "GW", "MJ/hr",
           "kcal/hr", "Gcal/hr", "MMBtu/hr", "MBtu/hr", "Mhp", "", "", "", "", "", "", "", "",
           "", "", "", "", "", "", "", "", "", "", "", "", "", "", "", "", "", "", "", "", "",
           "", "", "", "", "", "", "", "" >> @@
    11 :> << "N/sqm", "PsIa", "atm", "lbf/sqft", "bar", "torr", "in-water", "kg/sqcm", "mmHg",
           "kPa", "mm-water", "mbar", "psig", "atmg", "barg", "kg/sqcmg", "lb/ft-sqsec",
           "kg/m-sqsec", "pa", "MiPa", "Pag", "kPag", "MPag", "mbarg", "in-Hg", "mmHg-vac",
           "in-Hg-vac", "in-water-60F", "in-water-vac", "in-water-60F-vac", "in-water-g",
           "in-water-60F-g", "mm-water-g", "mm-water-60F-g", "psi", "mm-water-60F", "bara", "",
           "", "", "", "", "", "", "", "", "", "", "", "", "" >> @@
    12 :> << "K", "F", "K", "C", "R", "", "", "", "", "", "", "", "", "", "", "", "", "", "", "",
           "", "", "", "", "", "", "", "", "", "", "", "", "", "", "", "", "", "", "", "", "",
           "", "", "", "", "", "", "", "", "", "" >> @@
    13 :> << "sec", "hr", "hr", "day", "min", "year", "month", "week", "nsec", "oper-year", "",
           "", "", "", "", "", "", "", "", "", "", "", "", "", "", "", "", "", "", "", "", "",
           "", "", "", "", "", "", "", "", "", "", "", "", "", "", "", "", "", "", "" >> @@
    14 :> << "m/sec", "ft/sec", "m/sec", "mile/hr", "km/hr", "ft/min", "mm/day", "mm/hr",
           "mm/day30", "in/day", "", "", "", "", "", "", "", "", "", "", "", "", "", "", "", "",
           "", "", "", "", "", "", "", "", "", "", "", "", "", "", "", "", "", "", "", "", "",
           "", "", "", "" >> @@
    15 :> << "cum", "cuft", "l", "cuin", "gal", "bbl", "cc", "kcum", "Mcum", "Mcuft", "MMcuft",
           "ml", "kl", "MMl", "Mgal", "MMgal", "UKgal", "MUKgal", "MMUKgal", "Mbbl", "MMbbl",
           "kbbl", "cuyd", "", "", "", "", "", "", "", "", "", "", "", "", "", "", "", "", "",
           "", "", "", "", "", "", "", "", "", "", "" >> @@
    16 :> << "kmol/cum", "lbmol/cuft", "mol/cc", "lbmol/gal", "mol/l", "mmol/cc", "mmol/l", "",
           "", "", "", "", "", "", "", "", "", "", "", "", "", "", "", "", "", "", "", "", "",
           "", "", "", "", "", "", "", "", "", "", "", "", "", "", "", "", "", "", "", "", "",
           "" >> @@
    17 :> << "kg/cum", "lb/cuft", "gm/cc", "lb/gal", "gm/cum", "gm/ml", "gm/l", "mg/l", "mg/cc",
           "mg/cum", "", "", "", "", "", "", "", "", "", "", "", "", "", "", "", "", "", "", "",
           "", "", "", "", "", "", "", "", "", "", "", "", "", "", "", "", "", "", "", "", "",
           "" >> @@
    18 :> << "cum/kmol", "cuft/lbmol", "cc/mol", "ml/mol", "bbl/mscf", "", "", "", "", "", "",
           "", "", "", "", "", "", "", "", "", "", "", "", "", "", "", "", "", "", "", "", "",
           "", "", "", "", "", "", "", "", "", "", "", "", "", "", "", "", "", "", "" >> @@
    19 :> << "Watt", "kW", "kW", "MW", "GW", "", "", "", "", "", "", "", "", "", "", "", "", "",
           "", "", "", "", "", "", "", "", "", "", "", "", "", "", "", "", "", "", "", "", "",
           "", "", "", "", "", "", "", "", "", "", "", "" >> @@
    20 :> << "J/sec-K", "Btu/hr-R", "cal/sec-K", "kJ/sec-K", "kcal/sec-K", "kcal/hr-K",
           "Btu/hr-F", "kW/k", "", "", "", "", "", "", "", "", "", "", "", "", "", "", "", "",
           "", "", "", "", "", "", "", "", "", "", "", "", "", "", "", "", "", "", "", "", "",
           "", "", "", "", "", "" >> @@
    21 :> << "J", "hp-hr", "kW-hr", "ft-lbf", "kJ", "N-m", "MJ", "Mbtu", "MMBtu", "Mcal", "Gcal",
           "", "", "", "", "", "", "", "", "", "", "", "", "", "", "", "", "", "", "", "", "",
           "", "", "", "", "", "", "", "", "", "", "", "", "", "", "", "", "", "", "" >> @@
    22 :> << "J", "Btu", "cal", "kcal", "Mmkcal", "MMBtu", "Pcu", "MMPcu", "kJ", "GJ", "N-m",
           "MJ", "Mcal", "Gcal", "Mbtu", "kW-hr", "", "", "", "", "", "", "", "", "", "", "", "",
           "", "", "", "", "", "", "", "", "", "", "", "", "", "", "", "", "", "", "", "", "",
           "", "" >>

\* as get_hardcoded_unit_table, but without the filter on unit.strip()
get_hardcoded_unit_table_unfiltered ==
    [csv_col_idx \in {c \in DOMAIN TEA_csv_column_to_unit_type :
                         c \in DOMAIN TEA_hardcoded_units} |->
        [unit_type |-> TEA_csv_column_to_unit_type[csv_col_idx],
         units |-> [idx \in DOMAIN TEA_hardcoded_units[csv_col_idx]
                       |-> TEA_hardcoded_units[csv_col_idx][idx]]]]

\* get_hardcoded_unit_table of TEA_machine.py
get_hardcoded_unit_table ==
    [csv_col_idx \in {c \in DOMAIN TEA_csv_column_to_unit_type :
                         c \in DOMAIN TEA_hardcoded_units} |->
        [unit_type |-> TEA_csv_column_to_unit_type[csv_col_idx],
         units |-> [idx \in {i \in DOMAIN TEA_hardcoded_units[csv_col_idx] :
                                TEA_hardcoded_units[csv_col_idx][i] \notin BlankStrings}
                       |-> TEA_hardcoded_units[csv_col_idx][idx]]]]

MIN_SIZE_LIMITS ==
    "pump" :> ("centrifugal" :> Sci(1, 0) @@ "reciprocating" :> Sci(1, -1)) @@
    "compressor" :> ("centrifugal" :> Sci(450, 0) @@ "axial" :> Sci(450, 0) @@
                     "reciprocating" :> Sci(450, 0)) @@
    "turbine" :> ("axial" :> Sci(1, 0) @@ "radial" :> Sci(1, 0)) @@
    "fan" :> ("centrifugal_radial" :> Sci(1, 0) @@ "centrifugal_backward" :> Sci(1, 0) @@
              "centrifugal_forward" :> Sci(1, 0) @@ "axial" :> Sci(1, 0))

max_size_limits_literal ==
    "pump" :> ("centrifugal" :> Sci(1000, 0) @@ "reciprocating" :> Sci(1000, 0)) @@
    "compressor" :> ("centrifugal" :> Sci(10000, 0) @@ "axial" :> Sci(10000, 0) @@
                     "reciprocating" :> Sci(10000, 0)) @@
    "turbine" :> ("axial" :> Sci(10000, 0) @@ "radial" :> Sci(10000, 0)) @@
    "fan" :> ("centrifugal_radial" :> Sci(100, 0) @@ "centrifugal_backward" :> Sci(100, 0) @@
              "centrifugal_forward" :> Sci(100, 0) @@ "axial" :> Sci(100, 0))

max_size_limits_fan_below_minimum ==
    [max_size_limits_literal EXCEPT !["fan"]["axial"] = Sci(5, -1)]

MAX_SIZE_LIMITS == max_size_limits_literal

CEPCI_BY_YEAR ==
    2017 :> Sci(5675, -1) @@ 2018 :> Sci(6031, -1) @@ 2019 :> Sci(6075, -1) @@
    2020 :> Sci(5962, -1) @@ 2021 :> Sci(708, 0) @@ 2022 :> Sci(7788, -1) @@
    2023 :> Sci(7896, -1) @@ 2024 :> Sci(800, 0) @@ 2025 :> Sci(810, 0)

----------------------------------------------------------------------------
(* Input domains of the calls.                                             *)

\* None, and a value that is not None
NoneValue == [none |-> TRUE]

Some(x) == [none |-> FALSE, value |-> x]

\* Largest decimal exponent of the magnitudes tried: 10^MaxExp10, 10^-MaxExp10
MaxExp10 == 6

Values ==
    {Sci(0, 0), Sci(1, 0), Sci(-1, 0), Sci(1, MaxExp10), Sci(1, -MaxExp10),
     Sci(32, 0), Sci(27315, -2)}

UnknownTypes == {"NOT_A_TYPE", "power", ""}

UnitTypes == DOMAIN _get_si_base_units \cup UnknownTypes

\* unit symbols tried with every quantity type, whatever the unit table says
ForeignUnits ==
    {"kg", "kW", "K", "C", "F", "R", "psig", "atmg", "barg", "Pag", "kPag",
     "MPag", "mbarg", "PsIa", "in-Hg", "MMlb/year", "nonexistent", "BAR", ""}

\* the unit arguments tried with the convenience wrappers: None and symbols
WrapperUnits ==
    {NoneValue} \cup
    {Some(u) : u \in ForeignUnits \cup
                     {"kw", "bar", "bara", "m3/s", "m^3/s", "cum/sec", "hp", "Watt",
                      "N/sqm", "atm", "psi", "cum/hr", "l/min", "KW", "Bar"}}

\* the arguments tried with is_gauge_pressure_unit: None and spelled symbols
SpelledUnits ==
    {<<"p", "s", "i", "g">>, <<"a", "t", "m", "g">>, <<"b", "a", "r", "g">>,
     <<"P", "a", "g">>, <<"k", "P", "a", "g">>, <<"M", "P", "a", "g">>,
     <<"m", "b", "a", "r", "g">>, <<"P", "S", "I", "G">>, <<"A", "T", "M", "G">>,
     <<"B", "a", "r", "G">>, <<"p", "a", "g">>, <<"K", "P", "A", "G">>,
     <<"m", "p", "a", "g">>, <<"b", "a", "r">>, <<"b", "a", "r", "a">>,
     <<"P", "s", "I", "a">>, <<"k", "P", "a">>, <<"g">>, <<>>,
     <<"k", "g", "/", "s", "q", "c", "m", "g">>}

GaugeQueryUnits == {NoneValue} \cup {Some(u) : u \in SpelledUnits}

\* the dicts tried with convert_multiple_values_to_si
ParamNames == {"P_in", "T_in"}

ParamValues == {Sci(0, 0), Sci(1, 0)}

ParamUnits == {"barg", "C", "N/sqm", "nonexistent"}

ParamUnitTypes == {"PRESSURE", "TEMPERATURE", "NOT_A_TYPE"}

Dicts(keys, vals) == UNION {[d -> vals] : d \in SUBSET keys}

EquipmentTypes == {"pump", "compressor", "turbine", "fan", "unregistered_type"}

Subtypes ==
    {"centrifugal", "reciprocating", "axial", "radial", "centrifugal_radial",
     "centrifugal_backward", "centrifugal_forward", "x"}

SizeValues ==
    {Sci(-100, 0), Sci(0, 0), Sci(5, -2), Sci(1, -1), Sci(5, -1), Sci(1, 0),
     Sci(4499, -1), Sci(450, 0), Sci(1, MaxExp10)}

SizeUnits == {"kW", "m3/s"}

\* Years on either side of the registered range that are tried
YearMargin == 3

Years == {1999, 2099} \cup ((2017 - YearMargin) .. (2025 + YearMargin))

VARIABLES
    si_base_units,        \* self._si_base_units
    conversion_factors,   \* self._conversion_factors
    unit_table,           \* self._unit_table
    min_size_limits,      \* the module's MIN_SIZE_LIMITS
    max_size_limits,      \* the module's MAX_SIZE_LIMITS
    cepci_by_year,        \* the module's CEPCI_BY_YEAR
    call,                 \* the last call: operation, arguments and outcome
    prev,                 \* the convert_to_si call whose result the last call took as input
    _running,             \* Spinner: self._running
    _thread,              \* Spinner: self._thread, None or the thread last created
    spin,                 \* Spinner: where each spin thread is in _spin
    caller,               \* Spinner: where the thread calling start() and stop() is
    spinner_op,           \* Spinner: the last start() or stop() and what it did
    _unit_converter,      \* the module global _unit_converter: None until bound
    constructions,        \* how many times UnitConverter() has been entered
    module_body,          \* how far the body of module unit_converter has run
    import_lock,          \* the thread that holds the import lock of the module
    importer              \* the threads that import the module and use the converter

spinner_vars == <<_running, _thread, spin, caller, spinner_op>>

import_vars == <<_unit_converter, constructions, module_body, import_lock, importer>>

vars ==
    <<si_base_units, conversion_factors, unit_table, min_size_limits, max_size_limits,
      cepci_by_year, call, prev, spinner_vars, import_vars>>

\* the units the unit table lists under a quantity type
UnitsOf(unit_type) ==
    UNION {{unit_table[c].units[i] : i \in DOMAIN unit_table[c].units} :
              c \in {d \in DOMAIN unit_table : unit_table[d].unit_type = unit_type}}

UnitsFor(unit_type) == UnitsOf(unit_type) \cup ForeignUnits

----------------------------------------------------------------------------
(* Outcomes: a returned value, or a raised ValueError with the message of  *)
(* the inner raise.  consulted is the set of keys with which the           *)
(* conversion-factor table was read during the call.                       *)

Return(value, unit, consulted) ==
    [raised |-> FALSE, value |-> value, unit |-> unit, consulted |-> consulted]

ReturnValue(value, consulted) ==
    [raised |-> FALSE, value |-> value, consulted |-> consulted]

Raise(err, consulted) == [raised |-> TRUE, err |-> err, consulted |-> consulted]

\* as _convert_temperature_to_kelvin, but Rankine scaled by the rounded table
\* factor 0.555556 in place of 5/9
temperature_to_kelvin_rounded_rankine(value, from_unit) ==
    IF from_unit = "K" THEN ReturnValue(value, {})
    ELSE IF from_unit = "C" THEN ReturnValue(RatAdd(value, Sci(27315, -2)), {})
    ELSE IF from_unit = "F"
         THEN ReturnValue(RatAdd(RatDiv(RatMul(RatSub(value, Sci(32, 0)), Sci(5, 0)),
                                        Sci(9, 0)),
                                 Sci(27315, -2)), {})
    ELSE IF from_unit = "R" THEN ReturnValue(RatMul(value, Sci(555556, -6)), {})
    ELSE Raise("Unsupported temperature unit", {})

_convert_temperature_to_kelvin(value, from_unit) ==
    IF from_unit = "K" THEN ReturnValue(value, {})
    ELSE IF from_unit = "C" THEN ReturnValue(RatAdd(value, Sci(27315, -2)), {})
    ELSE IF from_unit = "F"
         THEN ReturnValue(RatAdd(RatDiv(RatMul(RatSub(value, Sci(32, 0)), Sci(5, 0)),
                                        Sci(9, 0)),
                                 Sci(27315, -2)), {})
    ELSE IF from_unit = "R"
         THEN ReturnValue(RatDiv(RatMul(value, Sci(5, 0)), Sci(9, 0)), {})
    ELSE Raise("Unsupported temperature unit", {})

\* as _convert_temperature_from_kelvin, but Fahrenheit without the + 32
temperature_from_kelvin_fahrenheit_unshifted(value_k, to_unit) ==
    IF to_unit = "K" THEN ReturnValue(value_k, {})
    ELSE IF to_unit = "C" THEN ReturnValue(RatSub(value_k, Sci(27315, -2)), {})
    ELSE IF to_unit = "F"
         THEN ReturnValue(RatDiv(RatMul(RatSub(value_k, Sci(27315, -2)), Sci(9, 0)),
                                 Sci(5, 0)), {})
    ELSE IF to_unit = "R"
         THEN ReturnValue(RatDiv(RatMul(value_k, Sci(9, 0)), Sci(5, 0)), {})
    ELSE Raise("Unsupported temperature unit", {})

_convert_temperature_from_kelvin(value_k, to_unit) ==
    IF to_unit = "K" THEN ReturnValue(value_k, {})
    ELSE IF to_unit = "C" THEN ReturnValue(RatSub(value_k, Sci(27315, -2)), {})
    ELSE IF to_unit = "F"
         THEN ReturnValue(RatAdd(RatDiv(RatMul(RatSub(value_k, Sci(27315, -2)), Sci(9, 0)),
                                        Sci(5, 0)),
                                 Sci(32, 0)), {})
    ELSE IF to_unit = "R"
         THEN ReturnValue(RatDiv(RatMul(value_k, Sci(9, 0)), Sci(5, 0)), {})
    ELSE Raise("Unsupported temperature unit", {})

\* as _convert_pressure_gauge_to_absolute, but barg offset by one standard
\* atmosphere taken as 1.0 bar
gauge_to_absolute_barg_one(value, from_unit) ==
    IF from_unit = "psig" THEN RatAdd(value, Sci(14696, -3))
    ELSE IF from_unit = "atmg" THEN RatAdd(value, Sci(1, 0))
    ELSE IF from_unit = "barg" THEN RatAdd(value, Sci(1, 0))
    ELSE IF from_unit = "Pag" THEN RatAdd(value, Sci(101325, 0))
    ELSE IF from_unit = "kPag" THEN RatAdd(value, Sci(101325, -3))
    ELSE IF from_unit = "MPag" THEN RatAdd(value, Sci(101325, -6))
    ELSE IF from_unit = "mbarg" THEN RatAdd(value, Sci(101325, -2))
    ELSE value

_convert_pressure_gauge_to_absolute(value, from_unit) ==
    IF from_unit = "psig" THEN RatAdd(value, Sci(14696, -3))
    ELSE IF from_unit = "atmg" THEN RatAdd(value, Sci(1, 0))
    ELSE IF from_unit = "barg" THEN RatAdd(value, Sci(101325, -5))
    ELSE IF from_unit = "Pag" THEN RatAdd(value, Sci(101325, 0))
    ELSE IF from_unit = "kPag" THEN RatAdd(value, Sci(101325, -3))
    ELSE IF from_unit = "MPag" THEN RatAdd(value, Sci(101325, -6))
    ELSE IF from_unit = "mbarg" THEN RatAdd(value, Sci(101325, -2))
    ELSE value

\* the gauge units convert_to_si tests from_unit against
gauge_list == {"psig", "atmg", "barg", "Pag", "kPag", "MPag", "mbarg"}

\* the rebinding of from_unit to the absolute unit
gauge_to_absolute_unit(from_unit) ==
    IF from_unit = "psig" THEN "PsIa"
    ELSE IF from_unit = "atmg" THEN "atm"
    ELSE IF from_unit = "barg" THEN "bar"
    ELSE IF from_unit = "Pag" THEN "pa"
    ELSE IF from_unit = "kPag" THEN "kPa"
    ELSE IF from_unit = "MPag" THEN "MiPa"
    ELSE IF from_unit = "mbarg" THEN "mbar"
    ELSE from_unit

\* the PRESSURE branch of convert_to_si
convert_to_si_pressure(value, from_unit, si_unit) ==
    LET gauge == from_unit \in gauge_list
        value1 == IF gauge THEN _convert_pressure_gauge_to_absolute(value, from_unit)
                           ELSE value
        unit1 == IF gauge THEN gauge_to_absolute_unit(from_unit) ELSE from_unit
    IN  IF unit1 \notin DOMAIN conversion_factors
        THEN Raise("Unsupported pressure unit", {unit1})
        ELSE LET factor == conversion_factors[unit1]
             IN  IF IsStr(factor)
                 THEN Raise("Special conversion required", {unit1})
                 ELSE Return(RatMul(value1, factor.val), si_unit, {unit1})

\* as convert_to_si_general, but an unknown unit converts with factor 1.0
\* (a lookup with a default in place of the membership test)
convert_to_si_general_default_factor(value, from_unit, si_unit) ==
    IF from_unit \notin DOMAIN conversion_factors
    THEN Return(value, si_unit, {from_unit})
    ELSE LET factor == conversion_factors[from_unit]
         IN  IF IsStr(factor)
             THEN Raise("Special conversion required", {from_unit})
             ELSE Return(RatMul(value, factor.val), si_unit, {from_unit})

\* as convert_to_si_general, but without the isinstance test: a marker is
\* passed over and the value returned unscaled
convert_to_si_general_marker_unchecked(value, from_unit, si_unit) ==
    IF from_unit \notin DOMAIN conversion_factors
    THEN Raise("Unsupported unit", {from_unit})
    ELSE LET factor == conversion_factors[from_unit]
         IN  IF IsStr(factor)
             THEN Return(value, si_unit, {from_unit})
             ELSE Return(RatMul(value, factor.val), si_unit, {from_unit})

\* the general branch of convert_to_si
convert_to_si_general(value, from_unit, si_unit) ==
    IF from_unit \notin DOMAIN conversion_factors
    THEN Raise("Unsupported unit", {from_unit})
    ELSE LET factor == conversion_factors[from_unit]
         IN  IF IsStr(factor)
             THEN Raise("Special conversion required", {from_unit})
             ELSE Return(RatMul(value, factor.val), si_unit, {from_unit})

\* not self._si_base_units.get(unit_type)
si_unit_missing(unit_type) ==
    \/ unit_type \notin DOMAIN si_base_units
    \/ si_base_units[unit_type] = ""

\* convert_to_si once from_unit is known not to be the SI unit
convert_to_si_special(value, from_unit, unit_type, si_unit) ==
    IF unit_type = "TEMPERATURE"
    THEN LET r == _convert_temperature_to_kelvin(value, from_unit)
         IN  IF r.raised THEN r ELSE Return(r.value, si_unit, r.consulted)
    ELSE IF unit_type = "PRESSURE"
         THEN convert_to_si_pressure(value, from_unit, si_unit)
    ELSE convert_to_si_general(value, from_unit, si_unit)

\* as convert_to_si_known_type, but without the test for the SI unit
convert_to_si_no_short_circuit(value, from_unit, unit_type, si_unit) ==
    convert_to_si_special(value, from_unit, unit_type, si_unit)

\* convert_to_si once the SI unit of unit_type is found
convert_to_si_known_type(value, from_unit, unit_type, si_unit) ==
    IF from_unit = si_unit THEN Return(value, si_unit, {})
    ELSE convert_to_si_special(value, from_unit, unit_type, si_unit)

\* as convert_to_si, but without the test of the looked-up SI unit: an
\* unknown type goes on with si_unit None
convert_to_si_type_unchecked(value, from_unit, unit_type) ==
    convert_to_si_known_type(value, from_unit, unit_type,
        IF si_unit_missing(unit_type) THEN "None" ELSE si_base_units[unit_type])

convert_to_si(value, from_unit, unit_type) ==
    IF si_unit_missing(unit_type) THEN Raise("Unsupported unit type", {})
    ELSE convert_to_si_known_type(value, from_unit, unit_type, si_base_units[unit_type])

\* as convert_from_si_general, but a gauge unit is rebound to its absolute
\* unit as in convert_to_si, without an offset
convert_from_si_general_gauge_rebound(value_si, to_unit) ==
    LET unit1 == gauge_to_absolute_unit(to_unit)
    IN  IF unit1 \notin DOMAIN conversion_factors
        THEN Raise("Unsupported unit", {unit1})
        ELSE LET factor == conversion_factors[unit1]
             IN  IF IsStr(factor)
                 THEN Raise("Special conversion required", {unit1})
                 ELSE ReturnValue(RatDiv(value_si, factor.val), {unit1})

\* as convert_from_si_general, but multiplying by the factor
convert_from_si_general_multiplying(value_si, to_unit) ==
    IF to_unit \notin DOMAIN conversion_factors
    THEN Raise("Unsupported unit", {to_unit})
    ELSE LET factor == conversion_factors[to_unit]
         IN  IF IsStr(factor)
             THEN Raise("Special conversion required", {to_unit})
             ELSE ReturnValue(RatMul(value_si, factor.val), {to_unit})

\* the general branch of convert_from_si
convert_from_si_general(value_si, to_unit) ==
    IF to_unit \notin DOMAIN conversion_factors
    THEN Raise("Unsupported unit", {to_unit})
    ELSE LET factor == conversion_factors[to_unit]
         IN  IF IsStr(factor)
             THEN Raise("Special conversion required", {to_unit})
             ELSE ReturnValue(RatDiv(value_si, factor.val), {to_unit})

convert_from_si(value_si, to_unit, unit_type) ==
    IF si_unit_missing(unit_type) THEN Raise("Unsupported unit type", {})
    ELSE LET si_unit == si_base_units[unit_type]
         IN  IF to_unit = si_unit THEN ReturnValue(value_si, {})
             ELSE IF unit_type = "TEMPERATURE"
                  THEN _convert_temperature_from_kelvin(value_si, to_unit)
             ELSE convert_from_si_general(value_si, to_unit)

----------------------------------------------------------------------------
(* Size limits and the escalation index.                                   *)

\* a small natural from its limbs
\* what a convenience wrapper did: the value returned (None or a float),
\* whether convert_to_si was called, and the text printed
WrapperResult(value, delegated, printed) ==
    [value |-> value, delegated |-> delegated, printed |-> printed]

\* the try / except of the three wrappers around convert_to_si, scaled by
\* 1 / divisor
wrapper_delegate(value, from_unit, unit_type, divisor, label) ==
    LET r == convert_to_si(value, from_unit, unit_type)
    IN  IF r.raised
        THEN WrapperResult(NoneValue, TRUE, label \o " CONVERSION ERROR")
        ELSE WrapperResult(Some(RatDiv(r.value, divisor)), TRUE, "")

\* as convert_power_to_kw, but the Watt value returned without the division
convert_power_to_kw_unscaled(value, from_unit) ==
    IF from_unit.none THEN WrapperResult(NoneValue, FALSE, "")
    ELSE IF from_unit.value \in {"kW", "kw"}
         THEN WrapperResult(Some(value), FALSE, "")
    ELSE wrapper_delegate(value, from_unit.value, "POWER", Sci(1, 0), "POWER")

convert_power_to_kw(value, from_unit) ==
    IF from_unit.none THEN WrapperResult(NoneValue, FALSE, "")
    ELSE IF from_unit.value \in {"kW", "kw"}
         THEN WrapperResult(Some(value), FALSE, "")
    ELSE wrapper_delegate(value, from_unit.value, "POWER", Sci(1000, 0), "POWER")

\* as convert_pressure_to_bar, but only 'bar' is taken as already at target
convert_pressure_to_bar_bara_delegated(value, from_unit) ==
    IF from_unit.none THEN WrapperResult(NoneValue, FALSE, "")
    ELSE IF from_unit.value \in {"bar"}
         THEN WrapperResult(Some(value), FALSE, "")
    ELSE wrapper_delegate(value, from_unit.value, "PRESSURE", Sci(100000, 0), "PRESSURE")

convert_pressure_to_bar(value, from_unit) ==
    IF from_unit.none THEN WrapperResult(NoneValue, FALSE, "")
    ELSE IF from_unit.value \in {"bar", "bara"}
         THEN WrapperResult(Some(value), FALSE, "")
    ELSE wrapper_delegate(value, from_unit.value, "PRESSURE", Sci(100000, 0), "PRESSURE")

\* as convert_flow_to_m3_s, but the except branch hands back the input value
convert_flow_to_m3_s_input_on_failure(value, from_unit) ==
    IF from_unit.none THEN WrapperResult(NoneValue, FALSE, "")
    ELSE IF from_unit.value \in {"m3/s", "m^3/s", "cum/sec"}
         THEN WrapperResult(Some(value), FALSE, "")
    ELSE LET r == wrapper_delegate(value, from_unit.value, "VOLUME-FLOW", Sci(1, 0), "FLOW")
         IN  IF r.value.none THEN WrapperResult(Some(value), TRUE, r.printed) ELSE r

convert_flow_to_m3_s(value, from_unit) ==
    IF from_unit.none THEN WrapperResult(NoneValue, FALSE, "")
    ELSE IF from_unit.value \in {"m3/s", "m^3/s", "cum/sec"}
         THEN WrapperResult(Some(value), FALSE, "")
    ELSE wrapper_delegate(value, from_unit.value, "VOLUME-FLOW", Sci(1, 0), "FLOW")

\* unit symbols spelled out character by character, for str.lower()
UpperLetters ==
    <<"A", "B", "C", "D", "E", "F", "G", "H", "I", "J", "K", "L", "M",
      "N", "O", "P", "Q", "R", "S", "T", "U", "V", "W", "X", "Y", "Z">>

LowerLetters ==
    <<"a", "b", "c", "d", "e", "f", "g", "h", "i", "j", "k", "l", "m",
      "n", "o", "p", "q", "r", "s", "t", "u", "v", "w", "x", "y", "z">>

lower_char(c) ==
    IF \E i \in DOMAIN UpperLetters : UpperLetters[i] = c
    THEN LowerLetters[CHOOSE i \in DOMAIN UpperLetters : UpperLetters[i] = c]
    ELSE c

\* unit.lower()
lower(unit) == [i \in DOMAIN unit |-> lower_char(unit[i])]

\* the string a sequence of characters spells
RECURSIVE Spell(_)
Spell(chars) == IF chars = <<>> THEN "" ELSE Head(chars) \o Spell(Tail(chars))

gauge_units ==
    {<<"b", "a", "r", "g">>, <<"p", "s", "i", "g">>, <<"k", "p", "a", "g">>,
     <<"m", "p", "a", "g">>, <<"m", "b", "a", "r", "g">>}

is_gauge_pressure_unit(unit) ==
    IF unit.none THEN FALSE
    ELSE lower(unit.value) \in gauge_units

\* as convert_multiple_values_to_si, but a parameter whose conversion fails
\* is paired with 'unknown' like one that lacks a unit
convert_multiple_values_to_si_failed_unknown(values_dict, units_dict, unit_types_dict) ==
    LET attempted(p) == p \in DOMAIN units_dict /\ p \in DOMAIN unit_types_dict
        inner(p) == convert_to_si(values_dict[p], units_dict[p], unit_types_dict[p])
    IN  [raised |-> FALSE,
         value |-> [p \in DOMAIN values_dict |->
                       IF attempted(p) /\ ~inner(p).raised
                       THEN <<inner(p).value, inner(p).unit>>
                       ELSE <<values_dict[p], "unknown">>],
         warned |-> {p \in DOMAIN values_dict : ~attempted(p) \/ inner(p).raised}]

\* convert_multiple_values_to_si of TEA_machine.py; convert_to_si_units is
\* convert_to_si of the shared converter
convert_multiple_values_to_si(values_dict, units_dict, unit_types_dict) ==
    LET attempted(p) == p \in DOMAIN units_dict /\ p \in DOMAIN unit_types_dict
        inner(p) == convert_to_si(values_dict[p], units_dict[p], unit_types_dict[p])
    IN  [raised |-> FALSE,
         value |-> [p \in DOMAIN values_dict |->
                       IF attempted(p)
                       THEN IF inner(p).raised
                            THEN <<values_dict[p], units_dict[p]>>
                            ELSE <<inner(p).value, inner(p).unit>>
                       ELSE <<values_dict[p], "unknown">>],
         warned |-> {p \in DOMAIN values_dict : ~attempted(p) \/ inner(p).raised}]

\* A line of the .bkp text is a sequence of pieces: blanks " " and runs of
\* other characters.  line.strip() drops the blanks at both ends.
RECURSIVE lstrip(_)
lstrip(line) == IF line # <<>> /\ Head(line) = " " THEN lstrip(Tail(line)) ELSE line

RECURSIVE rstrip(_)
rstrip(line) ==
    IF line # <<>> /\ line[Len(line)] = " "
    THEN rstrip(SubSeq(line, 1, Len(line) - 1))
    ELSE line

strip(line) == Spell(rstrip(lstrip(line)))

Range(seq) == {seq[i] : i \in DOMAIN seq}

SetMin(S) == CHOOSE x \in S : \A y \in S : x <= y

\* the category candidates of parse_bkp_file_for_blocks
category_candidates ==
    {"Heater", "Cooler", "HeatX", "Condenser"} \cup
    {"RadFrac", "Distl", "DWSTU"} \cup
    {"RStoic", "RCSTR", "RPlug", "RBatch", "REquil", "RYield"} \cup
    {"Pump", "Compr", "MCompr", "Vacuum", "Flash", "Sep", "Mixer", "FSplit", "Valve"}

\* the category found for one block name: the first candidate in the four
\* lines after the first line that is the block name
parse_category(lines, block_name) ==
    LET hits == {i \in DOMAIN lines : strip(lines[i]) = block_name}
    IN  IF hits = {} THEN "Unknown"
        ELSE LET i == SetMin(hits)
                 last == IF i + 4 < Len(lines) THEN i + 4 ELSE Len(lines)
                 found == {j \in (i + 1) .. last : strip(lines[j]) \in category_candidates}
             IN  IF found = {} THEN "Unknown" ELSE strip(lines[SetMin(found)])

\* parse_bkp_file_for_blocks; a file that cannot be read is None
parse_bkp_file_for_blocks(file, block_names) ==
    IF file.none THEN [b \in {} |-> "Unknown"]
    ELSE [b \in Range(block_names) |-> parse_category(file.value, b)]

\* as category_list, but 'Vacuum' filed under 'vacuum_systems'
category_list_vacuum_systems(category) ==
    IF category \in {"Heater", "Cooler", "HeatX", "Condenser"} THEN "heat_exchangers"
    ELSE IF category \in {"RadFrac", "Distl", "DWSTU"} THEN "distillation_columns"
    ELSE IF category \in {"RStoic", "RCSTR", "RPlug", "RBatch", "REquil", "RYield"}
         THEN "reactors"
    ELSE IF category \in {"Pump", "Compr", "MCompr"} THEN "pumps and compressors"
    ELSE IF category \in {"Vacuum"} THEN "vacuum_systems"
    ELSE IF category \in {"Flash", "Sep"} THEN "vessels"
    ELSE IF category \in {"Mixer", "FSplit", "Valve"} THEN "Ignore"
    ELSE "other_blocks"

\* the if / elif chain of classify_blocks_from_bkp: the list a category goes to
category_list(category) ==
    IF category \in {"Heater", "Cooler", "HeatX", "Condenser"} THEN "heat_exchangers"
    ELSE IF category \in {"RadFrac", "Distl", "DWSTU"} THEN "distillation_columns"
    ELSE IF category \in {"RStoic", "RCSTR", "RPlug", "RBatch", "REquil", "RYield"}
         THEN "reactors"
    ELSE IF category \in {"Pump", "Compr", "MCompr"} THEN "pumps and compressors"
    ELSE IF category \in {"Vacuum", "Flash", "Sep"} THEN "vessels"
    ELSE IF category \in {"Mixer", "FSplit", "Valve"} THEN "Ignore"
    ELSE "other_blocks"

block_category_keys ==
    {"heat_exchangers", "distillation_columns", "reactors", "pumps and compressors",
     "vessels", "vacuum_systems", "Ignore", "other_blocks"}

\* the keys of a dict filled in the order of block_names: each name once, at
\* its first occurrence
RECURSIVE insertion_order(_)
insertion_order(names) ==
    IF names = <<>> THEN <<>>
    ELSE LET before == insertion_order(SubSeq(names, 1, Len(names) - 1))
             name == names[Len(names)]
         IN  IF name \in Range(before) THEN before ELSE Append(before, name)

\* classify_blocks_from_bkp: (block_categories, block_info)
classify_blocks_from_bkp(file, block_names) ==
    LET block_info == parse_bkp_file_for_blocks(file, block_names)
        items == SelectSeq(insertion_order(block_names),
                           LAMBDA b : b \in DOMAIN block_info)
        listed(key) == SelectSeq(items, LAMBDA b : category_list(block_info[b]) = key)
    IN  <<[key \in block_category_keys |-> listed(key)], block_info>>

RECURSIVE NatToInt(_)
NatToInt(a) == IF a = <<>> THEN 0 ELSE a[1] + Base * NatToInt(Tail(a))

\* the decimal digits of fp / d after the point, for 0 <= fp < d, d a power of 10
RECURSIVE FractionDigits(_, _)
FractionDigits(fp, d) ==
    IF fp = 0 THEN ""
    ELSE ToString((fp * 10) \div d) \o FractionDigits((fp * 10) % d, d)

\* the text an f-string gives a float: repr, here for a decimal of a few
\* digits, which Python prints in full with at least one digit after the point
FloatRepr(x) ==
    LET n == NatToInt(x.num.mag)
        d == NatToInt(x.den)
    IN  (IF x.num.neg THEN "-" ELSE "") \o ToString(n \div d) \o "." \o
        (IF n % d = 0 THEN "0" ELSE FractionDigits(n % d, d))

\* d.get(key, {}) for a dict of dicts
GetOrEmpty(d, key) == IF key \in DOMAIN d THEN d[key] ELSE <<>>

\* as check_minimum_size_limit, but comparing with <=
check_minimum_size_limit_inclusive(equipment_type, subtype, size_value, size_unit) ==
    LET limits == GetOrEmpty(min_size_limits, equipment_type)
    IN  IF subtype \notin DOMAIN limits THEN <<TRUE, "">>
        ELSE LET min_limit == limits[subtype]
             IN  IF RatLess(size_value, min_limit) \/ RatEq(size_value, min_limit)
                 THEN <<FALSE, "under limit (min: " \o FloatRepr(min_limit) \o " "
                                 \o size_unit \o ")">>
                 ELSE <<TRUE, "">>

check_minimum_size_limit(equipment_type, subtype, size_value, size_unit) ==
    LET limits == GetOrEmpty(min_size_limits, equipment_type)
    IN  IF subtype \notin DOMAIN limits THEN <<TRUE, "">>
        ELSE LET min_limit == limits[subtype]
             IN  IF RatLess(size_value, min_limit)
                 THEN <<FALSE, "under limit (min: " \o FloatRepr(min_limit) \o " "
                                 \o size_unit \o ")">>
                 ELSE <<TRUE, "">>

\* an Optional[float]: None, or a float
\* as get_max_size_limit, but with 0.0 as the default of the subtype lookup
get_max_size_limit_default_zero(equipment_type, subtype) ==
    LET limits == GetOrEmpty(max_size_limits, equipment_type)
    IN  IF subtype \in DOMAIN limits THEN Some(limits[subtype]) ELSE Some(Sci(0, 0))

get_max_size_limit(equipment_type, subtype) ==
    LET limits == GetOrEmpty(max_size_limits, equipment_type)
    IN  IF subtype \in DOMAIN limits THEN Some(limits[subtype]) ELSE NoneValue

\* as get_cepi_index, but with the value of the last year as the default
get_cepi_index_default_last(year) ==
    IF year \in DOMAIN cepci_by_year THEN cepci_by_year[year] ELSE Sci(810, 0)

\* as get_cepi_index, but with the last registered year taken as out of range
get_cepi_index_last_year_excluded(year) ==
    IF year \in DOMAIN cepci_by_year /\ year < 2025 THEN cepci_by_year[year]
    ELSE Sci(800, 0)

\* as get_cepi_index, but with 0.0 as the default
get_cepi_index_default_zero(year) ==
    IF year \in DOMAIN cepci_by_year THEN cepci_by_year[year] ELSE Sci(0, 0)

get_cepi_index(year) ==
    IF year \in DOMAIN cepci_by_year THEN cepci_by_year[year] ELSE Sci(800, 0)

----------------------------------------------------------------------------
NoCall == [op |-> "none"]


\* as TablesUnchanged, but every operation leaves the factor of 'kW' set
\* to 1.0 in the shared table
TablesUnchanged_factor_overwritten ==
    /\ conversion_factors' =
           IF "kW" \in DOMAIN conversion_factors
           THEN [conversion_factors EXCEPT !["kW"] = Float(Sci(1, 0))]
           ELSE conversion_factors
    /\ UNCHANGED <<si_base_units, unit_table, min_size_limits, max_size_limits,
                   cepci_by_year>>

\* no operation assigns to a table
TablesUnchanged ==
    UNCHANGED <<si_base_units, conversion_factors, unit_table, min_size_limits,
                max_size_limits, cepci_by_year>>

----------------------------------------------------------------------------
(* The Spinner of TEA_machine.py: one object, one thread calling start()   *)
(* and stop(), and the spin threads start() creates.                       *)

\* the number of threads one Spinner creates in a run
MaxSpinThreads == 3

SpinThreads == 1 .. MaxSpinThreads

\* Spinner.__init__
SpinnerInit ==
    /\ _running = FALSE
    /\ _thread = NoneValue
    /\ spin = [t \in SpinThreads |-> "unborn"]
    /\ caller = "idle"
    /\ spinner_op = "none"

\* the thread runs _spin: it is started and has not left the loop
Alive(t) == spin[t] \in {"test", "write", "sleep"}

UnitCallsIdle ==
    /\ TablesUnchanged
    /\ UNCHANGED <<call, prev, import_vars>>

\* start() with self._running set: returns at once
StartWhileRunning ==
    /\ caller = "idle"
    /\ _running
    /\ spinner_op' = "start_returned_early"
    /\ UNCHANGED <<_running, _thread, spin, caller>>
    /\ UnitCallsIdle

\* start(): sets the flag, creates the thread and starts it
Start ==
    /\ caller = "idle"
    /\ ~_running
    /\ \E t \in SpinThreads :
         /\ spin[t] = "unborn"
         /\ \A u \in SpinThreads : u < t => spin[u] # "unborn"
         /\ _running' = TRUE
         /\ _thread' = Some(t)
         /\ spin' = [spin EXCEPT ![t] = "test"]
    /\ spinner_op' = "start_created_thread"
    /\ UNCHANGED caller
    /\ UnitCallsIdle

\* _spin: the test of the while loop
SpinTest(t) ==
    /\ spin[t] = "test"
    /\ spin' = [spin EXCEPT ![t] = IF _running THEN "write" ELSE "dead"]
    /\ UNCHANGED <<_running, _thread, caller, spinner_op>>
    /\ UnitCallsIdle

\* _spin: one frame written and flushed
SpinWrite(t) ==
    /\ spin[t] = "write"
    /\ spin' = [spin EXCEPT ![t] = "sleep"]
    /\ UNCHANGED <<_running, _thread, caller, spinner_op>>
    /\ UnitCallsIdle

\* _spin: time.sleep(0.1) is over
SpinWake(t) ==
    /\ spin[t] = "sleep"
    /\ spin' = [spin EXCEPT ![t] = "test"]
    /\ UNCHANGED <<_running, _thread, caller, spinner_op>>
    /\ UnitCallsIdle

\* stop() with self._running clear: returns at once
StopWhileNotRunning ==
    /\ caller = "idle"
    /\ ~_running
    /\ spinner_op' = "stop_returned_early"
    /\ UNCHANGED <<_running, _thread, spin, caller>>
    /\ UnitCallsIdle

\* stop(): clears the flag and goes to join the thread
StopBegin ==
    /\ caller = "idle"
    /\ _running
    /\ _running' = FALSE
    /\ caller' = IF _thread.none THEN "idle" ELSE "joining"
    /\ spinner_op' = "stop_cleared_flag"
    /\ UNCHANGED <<_thread, spin>>
    /\ UnitCallsIdle

\* stop(): join(timeout=0.5) returns because the thread has ended
JoinReturns ==
    /\ caller = "joining"
    /\ spin[_thread.value] = "dead"
    /\ caller' = "idle"
    /\ spinner_op' = "stop_joined"
    /\ UNCHANGED <<_running, _thread, spin>>
    /\ UnitCallsIdle

\* stop(): join(timeout=0.5) returns because 0.5 s have passed while the
\* thread is still in its write or its sleep
JoinTimesOut ==
    /\ caller = "joining"
    /\ spin[_thread.value] # "dead"
    /\ caller' = "idle"
    /\ spinner_op' = "stop_join_timed_out"
    /\ UNCHANGED <<_running, _thread, spin>>
    /\ UnitCallsIdle

NextSpinner ==
    \/ StartWhileRunning
    \/ Start
    \/ \E t \in SpinThreads : SpinTest(t)
    \/ \E t \in SpinThreads : SpinWrite(t)
    \/ \E t \in SpinThreads : SpinWake(t)
    \/ StopWhileNotRunning
    \/ StopBegin
    \/ JoinReturns
    \/ JoinTimesOut

----------------------------------------------------------------------------
(* The import of module unit_converter by several threads: the module body *)
(* runs once, in the thread that holds the import lock of the module; the   *)
(* others wait for it.  An attribute not yet assigned is an empty table.    *)

\* the number of threads that import the module at the same time
NumImporters == 3

Importers == 1 .. NumImporters

Unassigned == <<>>

\* the converter has its three tables
AllBuilt ==
    /\ si_base_units = _get_si_base_units
    /\ conversion_factors = _get_unit_conversion_factors
    /\ unit_table = _get_hardcoded_unit_table

\* the state before the first import
InitImport ==
    /\ si_base_units = Unassigned
    /\ conversion_factors = Unassigned
    /\ unit_table = Unassigned
    /\ min_size_limits = Unassigned
    /\ max_size_limits = Unassigned
    /\ cepci_by_year = Unassigned
    /\ call = NoCall
    /\ prev = NoCall
    /\ SpinnerInit
    /\ _unit_converter = NoneValue
    /\ constructions = 0
    /\ module_body = "absent"
    /\ import_lock = NoneValue
    /\ importer = [t \in Importers |-> [pc |-> "start", waited |-> FALSE]]

\* the state once the module is imported
Imported ==
    /\ _unit_converter = Some(1)
    /\ constructions = 1
    /\ module_body = "imported"
    /\ import_lock = NoneValue
    /\ importer = [t \in Importers |-> [pc |-> "ready", waited |-> FALSE]]

ImportFrame == UNCHANGED <<call, prev, spinner_vars>>

\* 'from unit_converter import ...' in a thread that finds the module not
\* yet imported: it takes the import lock and runs the module body
ImportBegin(t) ==
    /\ importer[t].pc = "start"
    /\ module_body = "absent"
    /\ import_lock' = Some(t)
    /\ module_body' = "init_si_base_units"
    /\ importer' = [importer EXCEPT ![t].pc = "executing"]
    /\ UNCHANGED <<_unit_converter, constructions>>
    /\ TablesUnchanged
    /\ ImportFrame

\* the import in a thread that finds the lock held: it waits
ImportBlocks(t) ==
    /\ importer[t].pc = "start"
    /\ module_body \notin {"absent", "imported"}
    /\ importer' = [importer EXCEPT ![t] = [pc |-> "blocked", waited |-> TRUE]]
    /\ UNCHANGED <<_unit_converter, constructions, module_body, import_lock>>
    /\ TablesUnchanged
    /\ ImportFrame

\* the import returns the imported module
ImportFinds(t) ==
    /\ importer[t].pc \in {"start", "blocked"}
    /\ module_body = "imported"
    /\ importer' = [importer EXCEPT ![t].pc = "ready"]
    /\ UNCHANGED <<_unit_converter, constructions, module_body, import_lock>>
    /\ TablesUnchanged
    /\ ImportFrame

\* as InitSiBaseUnits, but the object is bound to the global as soon as it
\* is created, before its tables are built
InitSiBaseUnits_publishing(t) ==
    /\ importer[t].pc = "executing"
    /\ module_body = "init_si_base_units"
    /\ constructions' = constructions + 1
    /\ si_base_units' = _get_si_base_units
    /\ module_body' = "init_conversion_factors"
    /\ _unit_converter' = Some(constructions + 1)
    /\ UNCHANGED <<conversion_factors, unit_table, min_size_limits, max_size_limits,
                   cepci_by_year, import_lock, importer>>
    /\ ImportFrame

\* UnitConverter() is entered: __init__ assigns self._si_base_units
InitSiBaseUnits(t) ==
    /\ importer[t].pc = "executing"
    /\ module_body = "init_si_base_units"
    /\ constructions' = constructions + 1
    /\ si_base_units' = _get_si_base_units
    /\ module_body' = "init_conversion_factors"
    /\ UNCHANGED <<conversion_factors, unit_table, min_size_limits, max_size_limits,
                   cepci_by_year, _unit_converter, import_lock, importer>>
    /\ ImportFrame

\* __init__ assigns self._conversion_factors
InitConversionFactors(t) ==
    /\ importer[t].pc = "executing"
    /\ module_body = "init_conversion_factors"
    /\ conversion_factors' = _get_unit_conversion_factors
    /\ module_body' = "init_unit_table"
    /\ UNCHANGED <<si_base_units, unit_table, min_size_limits, max_size_limits,
                   cepci_by_year, _unit_converter, constructions, import_lock, importer>>
    /\ ImportFrame

\* __init__ assigns self._unit_table and returns
InitUnitTable(t) ==
    /\ importer[t].pc = "executing"
    /\ module_body = "init_unit_table"
    /\ unit_table' = _get_hardcoded_unit_table
    /\ module_body' = "bind"
    /\ UNCHANGED <<si_base_units, conversion_factors, min_size_limits, max_size_limits,
                   cepci_by_year, _unit_converter, constructions, import_lock, importer>>
    /\ ImportFrame

\* _unit_converter = <the object UnitConverter() returned>
BindUnitConverter(t) ==
    /\ importer[t].pc = "executing"
    /\ module_body = "bind"
    /\ _unit_converter' = Some(constructions)
    /\ module_body' = "min_size_limits"
    /\ UNCHANGED <<constructions, import_lock, importer>>
    /\ TablesUnchanged
    /\ ImportFrame

\* MIN_SIZE_LIMITS = {...}
DefineMinSizeLimits(t) ==
    /\ importer[t].pc = "executing"
    /\ module_body = "min_size_limits"
    /\ min_size_limits' = MIN_SIZE_LIMITS
    /\ module_body' = "max_size_limits"
    /\ UNCHANGED <<si_base_units, conversion_factors, unit_table, max_size_limits,
                   cepci_by_year, _unit_converter, constructions, import_lock, importer>>
    /\ ImportFrame

\* MAX_SIZE_LIMITS = {...}
DefineMaxSizeLimits(t) ==
    /\ importer[t].pc = "executing"
    /\ module_body = "max_size_limits"
    /\ max_size_limits' = MAX_SIZE_LIMITS
    /\ module_body' = "cepci_by_year"
    /\ UNCHANGED <<si_base_units, conversion_factors, unit_table, min_size_limits,
                   cepci_by_year, _unit_converter, constructions, import_lock, importer>>
    /\ ImportFrame

\* CEPCI_BY_YEAR = {...}, the last definitions, and the end of the import:
\* the lock is released
DefineCepciByYear(t) ==
    /\ importer[t].pc = "executing"
    /\ module_body = "cepci_by_year"
    /\ cepci_by_year' = CEPCI_BY_YEAR
    /\ module_body' = "imported"
    /\ import_lock' = NoneValue
    /\ importer' = [importer EXCEPT ![t].pc = "ready"]
    /\ UNCHANGED <<si_base_units, conversion_factors, unit_table, min_size_limits,
                   max_size_limits, _unit_converter, constructions>>
    /\ ImportFrame

\* get_unit_converter(): the caller is handed the global
GetUnitConverter(t) ==
    /\ importer[t].pc = "ready"
    /\ importer' = [importer EXCEPT ![t] =
                       [pc |-> "holding", waited |-> importer[t].waited,
                        via |-> "get_unit_converter", converter |-> _unit_converter,
                        complete |-> AllBuilt]]
    /\ UNCHANGED <<_unit_converter, constructions, module_body, import_lock>>
    /\ TablesUnchanged
    /\ ImportFrame

\* a module-level wrapper, convert_to_si_units(value, from_unit, unit_type),
\* reads the global and calls its convert_to_si
CallConvertToSiUnits(t) ==
    /\ importer[t].pc = "ready"
    /\ importer' = [importer EXCEPT ![t] =
                       [pc |-> "holding", waited |-> importer[t].waited,
                        via |-> "convert_to_si_units", converter |-> _unit_converter,
                        complete |-> AllBuilt]]
    /\ UNCHANGED <<_unit_converter, constructions, module_body, import_lock>>
    /\ TablesUnchanged
    /\ ImportFrame

\* the caller lets go of the converter
ReleaseConverter(t) ==
    /\ importer[t].pc = "holding"
    /\ importer' = [importer EXCEPT ![t] = [pc |-> "ready", waited |-> importer[t].waited]]
    /\ UNCHANGED <<_unit_converter, constructions, module_body, import_lock>>
    /\ TablesUnchanged
    /\ ImportFrame

NextImport ==
    \/ \E t \in Importers : ImportBegin(t)
    \/ \E t \in Importers : ImportBlocks(t)
    \/ \E t \in Importers : ImportFinds(t)
    \/ \E t \in Importers : InitSiBaseUnits(t)
    \/ \E t \in Importers : InitConversionFactors(t)
    \/ \E t \in Importers : InitUnitTable(t)
    \/ \E t \in Importers : BindUnitConverter(t)
    \/ \E t \in Importers : DefineMinSizeLimits(t)
    \/ \E t \in Importers : DefineMaxSizeLimits(t)
    \/ \E t \in Importers : DefineCepciByYear(t)
    \/ \E t \in Importers : GetUnitConverter(t)
    \/ \E t \in Importers : CallConvertToSiUnits(t)
    \/ \E t \in Importers : ReleaseConverter(t)

SpecImport == InitImport /\ [][NextImport]_vars

----------------------------------------------------------------------------
(* The calls of the library.                                               *)

\* the state once unit_converter is imported (UnitConverter.__init__ and the
\* module's tables) and a Spinner is created
Init ==
    /\ si_base_units = _get_si_base_units
    /\ conversion_factors = _get_unit_conversion_factors
    /\ unit_table = _get_hardcoded_unit_table
    /\ min_size_limits = MIN_SIZE_LIMITS
    /\ max_size_limits = MAX_SIZE_LIMITS
    /\ cepci_by_year = CEPCI_BY_YEAR
    /\ call = NoCall
    /\ prev = NoCall
    /\ SpinnerInit
    /\ Imported

\* a call convert_to_si(value, from_unit, unit_type)
CallConvertToSi ==
    /\ call = NoCall
    /\ \E unit_type \in UnitTypes :
         \E from_unit \in UnitsFor(unit_type), value \in Values :
           call' = [op |-> "convert_to_si", value |-> value, unit |-> from_unit,
                    unit_type |-> unit_type,
                    result |-> convert_to_si(value, from_unit, unit_type)]
    /\ prev' = NoCall
    /\ TablesUnchanged
    /\ UNCHANGED <<spinner_vars, import_vars>>

\* a call convert_from_si(value_si, to_unit, unit_type)
CallConvertFromSi ==
    /\ call = NoCall
    /\ \E unit_type \in UnitTypes :
         \E to_unit \in UnitsFor(unit_type), value_si \in Values :
           call' = [op |-> "convert_from_si", value |-> value_si, unit |-> to_unit,
                    unit_type |-> unit_type,
                    result |-> convert_from_si(value_si, to_unit, unit_type)]
    /\ prev' = NoCall
    /\ TablesUnchanged
    /\ UNCHANGED <<spinner_vars, import_vars>>

\* convert_from_si applied to the value a convert_to_si call returned, with
\* the same unit and quantity type
CallConvertBack ==
    /\ call.op = "convert_to_si"
    /\ ~call.result.raised
    /\ call' = [op |-> "convert_from_si", value |-> call.result.value,
                unit |-> call.unit, unit_type |-> call.unit_type,
                result |-> convert_from_si(call.result.value, call.unit, call.unit_type)]
    /\ prev' = call
    /\ TablesUnchanged
    /\ UNCHANGED <<spinner_vars, import_vars>>

\* a call get_hardcoded_unit_table() of TEA_machine.py
CallGetHardcodedUnitTable ==
    /\ call = NoCall
    /\ call' = [op |-> "get_hardcoded_unit_table", result |-> get_hardcoded_unit_table]
    /\ prev' = NoCall
    /\ TablesUnchanged
    /\ UNCHANGED <<spinner_vars, import_vars>>

\* a call check_minimum_size_limit(equipment_type, subtype, size_value, size_unit)
CallCheckMinimumSizeLimit ==
    /\ call = NoCall
    /\ \E equipment_type \in EquipmentTypes, subtype \in Subtypes,
          size_value \in SizeValues, size_unit \in SizeUnits :
           call' = [op |-> "check_minimum_size_limit", equipment_type |-> equipment_type,
                    subtype |-> subtype, size_value |-> size_value,
                    size_unit |-> size_unit,
                    result |-> check_minimum_size_limit(equipment_type, subtype,
                                                        size_value, size_unit)]
    /\ prev' = NoCall
    /\ TablesUnchanged
    /\ UNCHANGED <<spinner_vars, import_vars>>

\* a call get_max_size_limit(equipment_type, subtype)
CallGetMaxSizeLimit ==
    /\ call = NoCall
    /\ \E equipment_type \in EquipmentTypes, subtype \in Subtypes :
           call' = [op |-> "get_max_size_limit", equipment_type |-> equipment_type,
                    subtype |-> subtype,
                    result |-> get_max_size_limit(equipment_type, subtype)]
    /\ prev' = NoCall
    /\ TablesUnchanged
    /\ UNCHANGED <<spinner_vars, import_vars>>

\* a call get_cepi_index(year)
CallGetCepiIndex ==
    /\ call = NoCall
    /\ \E year \in Years :
           call' = [op |-> "get_cepi_index", year |-> year,
                    result |-> get_cepi_index(year)]
    /\ prev' = NoCall
    /\ TablesUnchanged
    /\ UNCHANGED <<spinner_vars, import_vars>>

\* a call convert_power_to_kw(value, unit), convert_pressure_to_bar(value, unit)
\* or convert_flow_to_m3_s(value, unit) of the module, each handed on to the
\* method of the shared converter
CallConvertPowerToKw ==
    /\ call = NoCall
    /\ \E value \in Values, unit \in WrapperUnits :
           call' = [op |-> "convert_power_to_kw", value |-> value, unit |-> unit,
                    result |-> convert_power_to_kw(value, unit)]
    /\ prev' = NoCall
    /\ TablesUnchanged
    /\ UNCHANGED <<spinner_vars, import_vars>>

CallConvertPressureToBar ==
    /\ call = NoCall
    /\ \E value \in Values, unit \in WrapperUnits :
           call' = [op |-> "convert_pressure_to_bar", value |-> value, unit |-> unit,
                    result |-> convert_pressure_to_bar(value, unit)]
    /\ prev' = NoCall
    /\ TablesUnchanged
    /\ UNCHANGED <<spinner_vars, import_vars>>

CallConvertFlowToM3S ==
    /\ call = NoCall
    /\ \E value \in Values, unit \in WrapperUnits :
           call' = [op |-> "convert_flow_to_m3_s", value |-> value, unit |-> unit,
                    result |-> convert_flow_to_m3_s(value, unit)]
    /\ prev' = NoCall
    /\ TablesUnchanged
    /\ UNCHANGED <<spinner_vars, import_vars>>

\* a call is_gauge_pressure_unit(unit)
CallIsGaugePressureUnit ==
    /\ call = NoCall
    /\ \E unit \in GaugeQueryUnits :
           call' = [op |-> "is_gauge_pressure_unit", unit |-> unit,
                    result |-> is_gauge_pressure_unit(unit)]
    /\ prev' = NoCall
    /\ TablesUnchanged
    /\ UNCHANGED <<spinner_vars, import_vars>>

\* a call convert_multiple_values_to_si(values_dict, units_dict, unit_types_dict)
CallConvertMultipleValuesToSi ==
    /\ call = NoCall
    /\ \E values_dict \in Dicts(ParamNames, ParamValues),
          units_dict \in Dicts(ParamNames, ParamUnits),
          unit_types_dict \in Dicts(ParamNames, ParamUnitTypes) :
           call' = [op |-> "convert_multiple_values_to_si", values_dict |-> values_dict,
                    units_dict |-> units_dict, unit_types_dict |-> unit_types_dict,
                    result |-> convert_multiple_values_to_si(values_dict, units_dict,
                                                             unit_types_dict)]
    /\ prev' = NoCall
    /\ TablesUnchanged
    /\ UNCHANGED <<spinner_vars, import_vars>>

\* the operations a caller may repeat with the arguments of its last call
RepeatableOps ==
    {"convert_to_si", "convert_from_si", "convert_power_to_kw",
     "convert_pressure_to_bar", "convert_flow_to_m3_s", "check_minimum_size_limit",
     "get_max_size_limit", "get_cepi_index"}

\* the outcome of the operation of call c with the arguments of c, now
Execute(c) ==
    CASE c.op = "convert_to_si" -> convert_to_si(c.value, c.unit, c.unit_type)
      [] c.op = "convert_from_si" -> convert_from_si(c.value, c.unit, c.unit_type)
      [] c.op = "convert_power_to_kw" -> convert_power_to_kw(c.value, c.unit)
      [] c.op = "convert_pressure_to_bar" -> convert_pressure_to_bar(c.value, c.unit)
      [] c.op = "convert_flow_to_m3_s" -> convert_flow_to_m3_s(c.value, c.unit)
      [] c.op = "check_minimum_size_limit" ->
             check_minimum_size_limit(c.equipment_type, c.subtype, c.size_value,
                                      c.size_unit)
      [] c.op = "get_max_size_limit" -> get_max_size_limit(c.equipment_type, c.subtype)
      [] c.op = "get_cepi_index" -> get_cepi_index(c.year)

\* the last call made once more with the same arguments
CallRepeat ==
    /\ call.op \in RepeatableOps
    /\ prev = NoCall
    /\ call' = [call EXCEPT !.result = Execute(call)]
    /\ prev' = call
    /\ TablesUnchanged
    /\ UNCHANGED <<spinner_vars, import_vars>>

\* the caller is done with the outcome of the last call
CallerContinues ==
    /\ call # NoCall
    /\ call' = NoCall
    /\ prev' = NoCall
    /\ TablesUnchanged
    /\ UNCHANGED <<spinner_vars, import_vars>>

\* the .bkp texts tried: at most MaxLines lines, each the block name B1, the
\* block name B2 between blanks, or one category text after a blank
MaxLines == 6

CategoryTexts == category_candidates \cup {"Unknown", "HeatExchanger"}

BkpLines(category) == {<<"B1">>, <<" ", "B2", " ">>, <<" ", category>>}

BkpFiles ==
    {NoneValue} \cup
    {Some(lines) : lines \in UNION {[1 .. n -> BkpLines(category)] :
                                       n \in 0 .. MaxLines, category \in CategoryTexts}}

BlockNameLists == {<<>>, <<"B1", "B2">>, <<"B2", "B1", "B1">>}

\* a call classify_blocks_from_bkp(file_path, block_names); file is what
\* file_path holds
CallClassifyBlocksFromBkp ==
    /\ call = NoCall
    /\ \E file \in BkpFiles, block_names \in BlockNameLists :
           call' = [op |-> "classify_blocks_from_bkp", file |-> file,
                    block_names |-> block_names,
                    result |-> classify_blocks_from_bkp(file, block_names)]
    /\ prev' = NoCall
    /\ TablesUnchanged
    /\ UNCHANGED <<spinner_vars, import_vars>>

Next ==
    \/ CallConvertToSi
    \/ CallConvertFromSi
    \/ CallConvertBack
    \/ CallGetHardcodedUnitTable
    \/ CallCheckMinimumSizeLimit
    \/ CallGetMaxSizeLimit
    \/ CallGetCepiIndex
    \/ CallConvertPowerToKw
    \/ CallConvertPressureToBar
    \/ CallConvertFlowToM3S
    \/ CallIsGaugePressureUnit
    \/ CallConvertMultipleValuesToSi
    \/ CallRepeat
    \/ CallerContinues

Spec == Init /\ [][Next]_vars

\* the block classifier on its own
NextBlocks ==
    \/ CallClassifyBlocksFromBkp
    \/ CallerContinues

SpecBlocks == Init /\ [][NextBlocks]_vars

\* the Spinner on its own
SpecSpinner == Init /\ [][NextSpinner]_vars

----------------------------------------------------------------------------
(* Properties of convert_to_si and convert_from_si.                        *)

IsToSi == call.op = "convert_to_si"

IsFromSi == call.op = "convert_from_si"

KnownType == call.unit_type \in DOMAIN si_base_units

\* the registry entry of a unit is a special-case marker
IsMarkerUnit(unit) ==
    unit \in DOMAIN conversion_factors /\ IsStr(conversion_factors[unit])

\* the registry entry of a unit is a scalar factor
IsScalarUnit(unit) ==
    unit \in DOMAIN conversion_factors /\ ~IsStr(conversion_factors[unit])

UnknownUnitErrors ==
    {"Unsupported unit", "Unsupported pressure unit", "Unsupported temperature unit"}

\* the gauge -> absolute offsets and absolute counterparts of section 4.2
GaugeOffset ==
    "psig" :> Sci(14696, -3) @@ "atmg" :> Sci(1, 0) @@ "barg" :> Sci(101325, -5) @@
    "Pag" :> Sci(101325, 0) @@ "kPag" :> Sci(101325, -3) @@
    "MPag" :> Sci(101325, -6) @@ "mbarg" :> Sci(101325, -2)

GaugeAbsolute ==
    "psig" :> "PsIa" @@ "atmg" :> "atm" @@ "barg" :> "bar" @@ "Pag" :> "pa" @@
    "kPag" :> "kPa" @@ "MPag" :> "MiPa" @@ "mbarg" :> "mbar"

\* C1: under PRESSURE, convert_to_si of a gauge unit g succeeds for every
\* value v and returns ((v + offset(g)) * factor(abs(g)), 'N/sqm'); 0 barg
\* gives (101325.0, 'N/sqm').
C1_GaugePressureToSi ==
    (IsToSi /\ call.unit_type = "PRESSURE" /\ call.unit \in DOMAIN GaugeOffset) =>
        /\ ~call.result.raised
        /\ call.result.unit = "N/sqm"
        /\ IsScalarUnit(GaugeAbsolute[call.unit])
        /\ RatEq(call.result.value,
                 RatMul(RatAdd(call.value, GaugeOffset[call.unit]),
                        conversion_factors[GaugeAbsolute[call.unit]].val))
        /\ (call.unit = "barg" /\ call.value = Sci(0, 0)) =>
               RatEq(call.result.value, Sci(101325, 0))

C1_Witness ==
    /\ IsToSi /\ call.unit_type = "PRESSURE" /\ call.unit = "barg"
    /\ call.value = Sci(0, 0)
    /\ ~call.result.raised
    /\ RatEq(call.result.value, Sci(101325, 0))

\* the Kelvin value of section 4.2 for a temperature unit
KelvinOf(v, unit) ==
    IF unit = "K" THEN v
    ELSE IF unit = "C" THEN RatAdd(v, Sci(27315, -2))
    ELSE IF unit = "F"
         THEN RatAdd(RatMul(RatSub(v, Sci(32, 0)), RatDiv(Sci(5, 0), Sci(9, 0))),
                     Sci(27315, -2))
    ELSE RatMul(v, RatDiv(Sci(5, 0), Sci(9, 0)))

\* C2: under TEMPERATURE, convert_to_si never reads the conversion-factor
\* table and returns (v, 'K') for K, (v + 273.15, 'K') for C,
\* ((v - 32) * 5/9 + 273.15, 'K') for F and (v * 5/9, 'K') for R; 0 C and
\* 32 F both give 273.15 K; every other unit symbol fails.
C2_TemperatureToKelvin ==
    (IsToSi /\ call.unit_type = "TEMPERATURE") =>
        /\ call.result.consulted = {}
        /\ call.unit \in {"K", "C", "F", "R"} =>
               /\ ~call.result.raised
               /\ call.result.unit = "K"
               /\ RatEq(call.result.value, KelvinOf(call.value, call.unit))
        /\ call.unit \notin {"K", "C", "F", "R"} => call.result.raised
        /\ (\/ call.unit = "C" /\ call.value = Sci(0, 0)
            \/ call.unit = "F" /\ call.value = Sci(32, 0)) =>
               RatEq(call.result.value, Sci(27315, -2))

C2_Witness ==
    /\ IsToSi /\ call.unit_type = "TEMPERATURE" /\ call.unit = "R"
    /\ call.value = Sci(1, MaxExp10)
    /\ ~call.result.raised
    /\ RatEq(RatMul(call.result.value, Sci(9, 0)), Sci(5, MaxExp10))

\* C3: for every quantity type Q and value v, convert_to_si(v, si_unit(Q), Q)
\* returns exactly (v, si_unit(Q)): v itself, no factor read or applied.
C3_IdentityShortCircuit ==
    (IsToSi /\ KnownType /\ call.unit = si_base_units[call.unit_type]) =>
        /\ ~call.result.raised
        /\ call.result.value = call.value
        /\ call.result.unit = si_base_units[call.unit_type]
        /\ call.result.consulted = {}

C3_Witness ==
    /\ IsToSi /\ call.unit_type = "POWER" /\ call.unit = "Watt"
    /\ call.value = Sci(1, -MaxExp10)
    /\ ~call.result.raised
    /\ call.result.value = Sci(1, -MaxExp10)

\* the representative values of the round-trip property
RoundTripValues ==
    {Sci(0, 0), Sci(1, 0), Sci(-1, 0), Sci(1, MaxExp10), Sci(1, -MaxExp10)}

\* a convert_to_si call the round-trip property is about
RoundTripCase(c) ==
    /\ c.op = "convert_to_si"
    /\ c.unit_type \in DOMAIN si_base_units
    /\ c.unit \in UnitsOf(c.unit_type)
    /\ c.unit \notin DOMAIN GaugeOffset
    /\ ~IsMarkerUnit(c.unit)
    /\ c.value \in RoundTripValues

\* C4: for every quantity type Q, every unit U of Q that is neither a gauge
\* unit nor a special-marker unit, and every representative v,
\* convert_to_si(v, U, Q) returns a value that convert_from_si(., U, Q)
\* takes back to v.
C4_RoundTrip ==
    /\ RoundTripCase(call) => ~call.result.raised
    /\ (IsFromSi /\ prev # NoCall /\ RoundTripCase(prev)) =>
           /\ ~call.result.raised
           /\ RatEq(call.result.value, prev.value)

\* the 22 quantity types of the enumeration
QuantityTypes ==
    {"AREA", "COMPOSITION", "DENSITY", "ENERGY", "FLOW", "MASS-FLOW", "MOLE-FLOW",
     "VOLUME-FLOW", "MASS", "POWER", "PRESSURE", "TEMPERATURE", "TIME", "VELOCITY",
     "VOLUME", "MOLE-DENSITY", "MASS-DENSITY", "MOLE-VOLUME", "ELEC-POWER", "UA",
     "WORK", "HEAT"}

\* C5: convert_to_si and convert_from_si fail with the unknown-quantity-type
\* error for every quantity type outside the 22 enumerated ones, whatever the
\* unit and the value; nothing is returned.
C5_UnknownQuantityType ==
    ((IsToSi \/ IsFromSi) /\ call.unit_type \notin QuantityTypes) =>
        /\ call.result.raised
        /\ call.result.err = "Unsupported unit type"

C5_Witness ==
    /\ IsToSi /\ call.unit_type = "NOT_A_TYPE" /\ call.unit = "kW"
    /\ call.value = Sci(1, 0)
    /\ call.result.raised

\* a unit symbol that is in no registry: not in the conversion-factor table,
\* not in the unit table, not an SI unit
InNoRegistry(unit) ==
    /\ unit \notin DOMAIN conversion_factors
    /\ \A c \in DOMAIN unit_table :
           \A i \in DOMAIN unit_table[c].units : unit_table[c].units[i] # unit
    /\ \A t \in DOMAIN si_base_units : si_base_units[t] # unit

\* C6: for every recognized quantity type and every unit symbol in no
\* registry, convert_to_si and convert_from_si fail with an unknown-unit
\* error and return nothing.
C6_UnknownUnit ==
    ((IsToSi \/ IsFromSi) /\ KnownType /\ InNoRegistry(call.unit)) =>
        /\ call.result.raised
        /\ call.result.err \in UnknownUnitErrors

C6_Witness ==
    /\ IsToSi /\ call.unit_type = "POWER" /\ call.unit = "nonexistent"
    /\ call.value = Sci(1, 0)
    /\ call.result.raised
    /\ call.result.err = "Unsupported unit"

\* C7: for every recognized quantity type Q, convert_to_si(v, u, Q) fails
\* whenever u is not a unit the unit table lists under Q, also when u is a
\* registered unit of another quantity type; it never returns v scaled by
\* another type's factor.
C7_UnitOfOtherTypeRejected ==
    (IsToSi /\ KnownType /\ call.unit \notin UnitsOf(call.unit_type)) =>
        call.result.raised

\* C8: on the scalar path of convert_to_si (quantity type not TEMPERATURE,
\* unit not a gauge unit under PRESSURE), a unit whose factor lookup yields a
\* special-case marker makes the call fail with the
\* special-conversion-required error; the marker is never a multiplier.
C8_MarkerOnScalarPath ==
    (/\ IsToSi /\ KnownType
     /\ call.unit_type # "TEMPERATURE"
     /\ ~(call.unit_type = "PRESSURE" /\ call.unit \in DOMAIN GaugeOffset)
     /\ IsMarkerUnit(call.unit)) =>
        /\ call.result.raised
        /\ call.result.err = "Special conversion required"

C8_Witness ==
    /\ IsToSi /\ call.unit_type = "POWER" /\ call.unit = "barg"
    /\ IsMarkerUnit(call.unit)
    /\ call.result.raised
    /\ call.result.err = "Special conversion required"

\* C9: convert_from_si(v, g, PRESSURE) fails for every gauge unit g and
\* every v; it never returns a number.
C9_GaugeReverseFails ==
    (IsFromSi /\ call.unit_type = "PRESSURE" /\ call.unit \in DOMAIN GaugeOffset) =>
        call.result.raised

C9_Witness ==
    /\ IsFromSi /\ call.unit_type = "PRESSURE" /\ call.unit = "barg"
    /\ call.value = Sci(1, MaxExp10)
    /\ call.result.raised

\* C10: for a recognized quantity type Q, convert_from_si returns value_si
\* itself when to_unit is the SI unit of Q and, outside the temperature
\* dispatch, value_si / factor(to_unit) for every other unit that has a
\* scalar factor.
C10_FromSiInverseScalar ==
    (IsFromSi /\ KnownType) =>
        /\ call.unit = si_base_units[call.unit_type] =>
               /\ ~call.result.raised
               /\ call.result.value = call.value
        /\ (/\ call.unit # si_base_units[call.unit_type]
            /\ call.unit_type # "TEMPERATURE"
            /\ IsScalarUnit(call.unit)) =>
               /\ ~call.result.raised
               /\ RatEq(RatMul(call.result.value, conversion_factors[call.unit].val),
                        call.value)

C10_Witness ==
    /\ IsFromSi /\ call.unit_type = "POWER" /\ call.unit = "hp"
    /\ call.value = Sci(1, MaxExp10)
    /\ ~call.result.raised
    /\ RatEq(RatMul(call.result.value, Sci(7457, -1)), Sci(1, MaxExp10))

\* the value of section 4.2 for a Kelvin value in a temperature unit
FromKelvin(k, unit) ==
    IF unit = "K" THEN k
    ELSE IF unit = "C" THEN RatSub(k, Sci(27315, -2))
    ELSE IF unit = "F"
         THEN RatAdd(RatMul(RatSub(k, Sci(27315, -2)), RatDiv(Sci(9, 0), Sci(5, 0))),
                     Sci(32, 0))
    ELSE RatMul(k, RatDiv(Sci(9, 0), Sci(5, 0)))

\* C11: under TEMPERATURE, convert_from_si returns k for K, k - 273.15 for C,
\* (k - 273.15) * 9/5 + 32 for F and k * 9/5 for R; 273.15 K is 32 F; every
\* other unit symbol fails.
C11_TemperatureFromKelvin ==
    (IsFromSi /\ call.unit_type = "TEMPERATURE") =>
        /\ call.unit \in {"K", "C", "F", "R"} =>
               /\ ~call.result.raised
               /\ RatEq(call.result.value, FromKelvin(call.value, call.unit))
        /\ call.unit \notin {"K", "C", "F", "R"} => call.result.raised
        /\ (call.unit = "F" /\ call.value = Sci(27315, -2)) =>
               RatEq(call.result.value, Sci(32, 0))

C11_Witness ==
    /\ IsFromSi /\ call.unit_type = "TEMPERATURE" /\ call.unit = "F"
    /\ call.value = Sci(27315, -2)
    /\ ~call.result.raised
    /\ RatEq(call.result.value, Sci(32, 0))

\* a scalar factor that is a positive number (a rational is always finite)
IsPositiveFloat(factor) ==
    /\ ~IsStr(factor)
    /\ ~factor.val.num.neg
    /\ factor.val.num.mag # <<>>

TemperatureUnits == {"K", "C", "F", "R"}

\* C12 as stated: in the conversion-factor registry K, C, F, R and the seven
\* gauge units map to a special-case marker and every other registered unit
\* symbol maps to a positive finite float.
C12_TemperatureAndGaugeAreMarkers ==
    /\ TemperatureUnits \cup DOMAIN GaugeOffset \subseteq DOMAIN conversion_factors
    /\ \A unit \in DOMAIN conversion_factors :
           IF unit \in TemperatureUnits \cup DOMAIN GaugeOffset
           THEN IsStr(conversion_factors[unit])
           ELSE IsPositiveFloat(conversion_factors[unit])

\* C12, amended: in the conversion-factor registry C, F and the seven gauge
\* units map to a special-case marker, and every other registered unit
\* symbol, K (1.0) and R (0.555556) included, maps to a positive finite float.
C12_MarkersAndPositiveFloats ==
    /\ TemperatureUnits \cup DOMAIN GaugeOffset \subseteq DOMAIN conversion_factors
    /\ \A unit \in DOMAIN conversion_factors :
           IF unit \in {"C", "F"} \cup DOMAIN GaugeOffset
           THEN IsStr(conversion_factors[unit])
           ELSE IsPositiveFloat(conversion_factors[unit])
    /\ RatEq(conversion_factors["K"].val, Sci(1, 0))
    /\ RatEq(conversion_factors["R"].val, Sci(555556, -6))

C12_Witness ==
    /\ IsFromSi /\ call.unit_type = "POWER" /\ call.unit = "R"
    /\ IsPositiveFloat(conversion_factors["R"])
    /\ IsStr(conversion_factors["C"])
    /\ IsStr(conversion_factors["psig"])
    /\ ~call.result.raised

\* C14: each of the 22 quantity types maps to exactly one SI unit symbol, and
\* the conversion-factor registry entry of that symbol is the scalar 1.0.
C14_SiUnitFactorIsOne ==
    /\ DOMAIN si_base_units = QuantityTypes
    /\ Cardinality(DOMAIN si_base_units) = 22
    /\ \A t \in DOMAIN si_base_units :
           /\ si_base_units[t] \notin BlankStrings
           /\ IsScalarUnit(si_base_units[t])
           /\ RatEq(conversion_factors[si_base_units[t]].val, Sci(1, 0))

C14_Witness ==
    /\ si_base_units["TEMPERATURE"] = "K"
    /\ si_base_units["ELEC-POWER"] = "Watt"
    /\ conversion_factors["K"] = Float(Sci(1, 0))
    /\ conversion_factors["Watt"] = Float(Sci(1, 0))

\* every unit a constructed unit table keeps has a registry entry
AllUnitsHaveFactor(table) ==
    \A c \in DOMAIN table :
        \A i \in DOMAIN table[c].units :
            table[c].units[i] \in DOMAIN conversion_factors

\* C13: every non-blank (quantity type, unit symbol) pair of the unit table
\* has an entry in the conversion-factor registry, so convert_to_si succeeds
\* for every unit the unit table lists under its own quantity type.
C13_EveryTableUnitHasFactor ==
    /\ AllUnitsHaveFactor(unit_table)
    /\ call.op = "get_hardcoded_unit_table" => AllUnitsHaveFactor(call.result)
    /\ (IsToSi /\ KnownType /\ call.unit \in UnitsOf(call.unit_type)) =>
           ~call.result.raised

\* a constructed table keeps no blank entry and keeps every non-blank entry of
\* the reference data, under every column, at its index
NoBlankAllKept(table, reference, columns) ==
    /\ DOMAIN table = DOMAIN reference
    /\ {table[c].unit_type : c \in DOMAIN table} = QuantityTypes
    /\ \A c \in DOMAIN table :
           /\ table[c].unit_type = columns[c]
           /\ \A i \in DOMAIN table[c].units : table[c].units[i] \notin BlankStrings
           /\ \A i \in DOMAIN reference[c] :
                  reference[c][i] \notin BlankStrings =>
                      /\ i \in DOMAIN table[c].units
                      /\ table[c].units[i] = reference[c][i]

\* C15: after table construction no unit-table entry is blank: every unit
\* symbol kept, for every quantity type, is a non-blank string, and every
\* non-blank entry of the reference data is kept at its original index.
C15_NoBlankUnitKept ==
    /\ NoBlankAllKept(unit_table, hardcoded_units, csv_column_to_unit_type)
    /\ call.op = "get_hardcoded_unit_table" =>
           NoBlankAllKept(call.result, TEA_hardcoded_units, TEA_csv_column_to_unit_type)

C15_Witness ==
    /\ call.op = "get_hardcoded_unit_table"
    /\ TEA_hardcoded_units[12][6] = ""
    /\ DOMAIN call.result[12].units = 1..5
    /\ call.result[12].units[5] = "R"
    /\ DOMAIN unit_table[12].units = 1..5

----------------------------------------------------------------------------
(* Properties of the escalation index and the size limits.                 *)

IsCepi == call.op = "get_cepi_index"

\* the years of the registered range
RegisteredYears == 2017 .. 2025

\* C16 as stated: for every year without a registered index (below 2017 or
\* above 2025) get_cepi_index returns the index registered for the last
\* year, 2025.
C16_FallbackIsLastYear ==
    (IsCepi /\ call.year \notin RegisteredYears) =>
        RatEq(call.result, cepci_by_year[2025])

\* C16, amended: for every year without a registered index (below 2017 or
\* above 2025) get_cepi_index returns the fixed default 800.0, which is the
\* index registered for 2024, not the one registered for the last year 2025.
C16_FallbackIsDefault800 ==
    (IsCepi /\ call.year \notin RegisteredYears) =>
        /\ call.year \notin DOMAIN cepci_by_year
        /\ RatEq(call.result, Sci(800, 0))
        /\ RatEq(call.result, cepci_by_year[2024])
        /\ ~RatEq(call.result, cepci_by_year[2025])

C16_Witness ==
    /\ IsCepi /\ call.year = 2099
    /\ RatEq(call.result, Sci(800, 0))

\* C17: for every year of the registered range 2017..2025 get_cepi_index
\* returns exactly the index registered for that year; the range has no gap.
C17_ExactLookup ==
    /\ RegisteredYears \subseteq DOMAIN cepci_by_year
    /\ (IsCepi /\ call.year \in RegisteredYears) =>
           call.result = cepci_by_year[call.year]

C17_Witness ==
    /\ IsCepi /\ call.year = 2025
    /\ RatEq(call.result, Sci(810, 0))

\* C18: get_cepi_index is total: for every year, 1999 and 2099 included, it
\* returns a defined, strictly positive index.
C18_IndexPositive ==
    IsCepi =>
        /\ ~call.result.num.neg
        /\ call.result.num.mag # <<>>
        /\ RatLess(Sci(0, 0), call.result)

C18_Witness ==
    /\ IsCepi /\ call.year = 1999
    /\ RatLess(Sci(0, 0), call.result)

\* a minimum / maximum is registered for the pair of the call
MinRegistered ==
    /\ call.equipment_type \in DOMAIN min_size_limits
    /\ call.subtype \in DOMAIN min_size_limits[call.equipment_type]

MaxRegistered ==
    /\ call.equipment_type \in DOMAIN max_size_limits
    /\ call.subtype \in DOMAIN max_size_limits[call.equipment_type]

\* the text of each registered minimum in the message
MinimumText ==
    "pump" :> ("centrifugal" :> "1.0" @@ "reciprocating" :> "0.1") @@
    "compressor" :> ("centrifugal" :> "450.0" @@ "axial" :> "450.0" @@
                     "reciprocating" :> "450.0") @@
    "turbine" :> ("axial" :> "1.0" @@ "radial" :> "1.0") @@
    "fan" :> ("centrifugal_radial" :> "1.0" @@ "centrifugal_backward" :> "1.0" @@
              "centrifugal_forward" :> "1.0" @@ "axial" :> "1.0")

\* C19: check_minimum_size_limit returns (True, "") when no minimum is
\* registered for (equipment_type, subtype), whatever the size, and when
\* size_value >= min; otherwise (False, "under limit (min: {min} {unit})")
\* with the registered minimum and the caller's size_unit.
C19_CheckMinimum ==
    (call.op = "check_minimum_size_limit") =>
        IF ~MinRegistered
        THEN call.result = <<TRUE, "">>
        ELSE IF ~RatLess(call.size_value, min_size_limits[call.equipment_type][call.subtype])
        THEN call.result = <<TRUE, "">>
        ELSE call.result =
                 <<FALSE, "under limit (min: "
                          \o MinimumText[call.equipment_type][call.subtype]
                          \o " " \o call.size_unit \o ")">>

C19_Witness ==
    /\ call.op = "check_minimum_size_limit"
    /\ call.equipment_type = "pump" /\ call.subtype = "reciprocating"
    /\ call.size_value = Sci(5, -2) /\ call.size_unit = "kW"
    /\ call.result = <<FALSE, "under limit (min: 0.1 kW)">>

\* C20: get_max_size_limit returns the registered maximum for a registered
\* (equipment_type, subtype) and None for every unregistered type or
\* subtype; never zero for a missing entry.
C20_GetMaximum ==
    (call.op = "get_max_size_limit") =>
        IF MaxRegistered
        THEN /\ ~call.result.none
             /\ call.result.value = max_size_limits[call.equipment_type][call.subtype]
        ELSE call.result = NoneValue

C20_Witness ==
    /\ call.op = "get_max_size_limit"
    /\ call.equipment_type = "pump" /\ call.subtype = "x"
    /\ call.result = NoneValue

\* C21: for every (equipment_type, subtype) pair that has both a registered
\* minimum and a registered maximum size, the minimum is less than or equal
\* to the maximum.
C21_MinimumAtMostMaximum ==
    \A t \in DOMAIN min_size_limits \cap DOMAIN max_size_limits :
        \A s \in DOMAIN min_size_limits[t] \cap DOMAIN max_size_limits[t] :
            ~RatLess(max_size_limits[t][s], min_size_limits[t][s])

C21_Witness ==
    /\ call.op = "get_max_size_limit"
    /\ call.equipment_type = "fan" /\ call.subtype = "axial"
    /\ "axial" \in DOMAIN min_size_limits["fan"]
    /\ ~call.result.none
    /\ RatLess(min_size_limits["fan"]["axial"], call.result.value)

----------------------------------------------------------------------------
(* Properties of the convenience wrappers.                                 *)

WrapperOps == {"convert_power_to_kw", "convert_pressure_to_bar", "convert_flow_to_m3_s"}

IsWrapper == call.op \in WrapperOps

\* the spellings each wrapper takes as already at target
TargetSpellings ==
    "convert_power_to_kw" :> {"kW", "kw"} @@
    "convert_pressure_to_bar" :> {"bar", "bara"} @@
    "convert_flow_to_m3_s" :> {"m3/s", "m^3/s", "cum/sec"}

\* the quantity type each wrapper converts with, and the SI value of one
\* target unit
WrapperType ==
    "convert_power_to_kw" :> "POWER" @@
    "convert_pressure_to_bar" :> "PRESSURE" @@
    "convert_flow_to_m3_s" :> "VOLUME-FLOW"

WrapperScale ==
    "convert_power_to_kw" :> Sci(1000, 0) @@
    "convert_pressure_to_bar" :> Sci(100000, 0) @@
    "convert_flow_to_m3_s" :> Sci(1, 0)

AtTarget == IsWrapper /\ ~call.unit.none /\ call.unit.value \in TargetSpellings[call.op]

\* the wrapper call went on to convert_to_si; Inner is what that gave
Delegating == IsWrapper /\ ~call.unit.none /\ call.unit.value \notin TargetSpellings[call.op]

Inner == convert_to_si(call.value, call.unit.value, WrapperType[call.op])

\* C22: each convenience wrapper returns its input value exactly, without
\* calling the general conversion path, when the unit is an already-at-target
\* spelling: 'bar' and 'bara' for pressure, 'kW' and 'kw' for power, 'm3/s',
\* 'm^3/s' and 'cum/sec' for flow.
C22_WrapperNoOp ==
    AtTarget =>
        /\ call.result.value = Some(call.value)
        /\ ~call.result.delegated
        /\ call.result.printed = ""

C22_Witness ==
    /\ call.op = "convert_pressure_to_bar"
    /\ call.unit = Some("bara")
    /\ call.value = Sci(27315, -2)
    /\ call.result.value = Some(Sci(27315, -2))
    /\ ~call.result.delegated

\* C23: the convenience wrappers never raise: for every value and unit (a
\* missing unit, an unrecognized symbol, a special-marker unit of another
\* quantity) whose internal conversion fails they return None, never zero
\* and never the unconverted input.
C23_WrapperFailureIsNone ==
    IsWrapper =>
        /\ call.result.value.none \/ call.result.value = Some(call.result.value.value)
        /\ call.unit.none => call.result.value = NoneValue
        /\ (Delegating /\ Inner.raised) =>
               /\ call.result.value = NoneValue
               /\ call.result.printed # ""

C23_Witness ==
    /\ call.op = "convert_flow_to_m3_s"
    /\ call.unit = Some("psig")
    /\ call.value = Sci(1, 0)
    /\ Inner.raised
    /\ call.result.value = NoneValue

\* C24: for a unit that is not an already-at-target spelling and converts,
\* convert_power_to_kw gives convert_to_si(.., POWER).value / 1000,
\* convert_pressure_to_bar gives convert_to_si(.., PRESSURE).value / 100000
\* (a gauge unit yields absolute bar: 0 barg gives 1.01325), and
\* convert_flow_to_m3_s gives convert_to_si(.., VOLUME-FLOW).value.
C24_WrapperRescales ==
    /\ (Delegating /\ ~Inner.raised) =>
           /\ ~call.result.value.none
           /\ call.result.delegated
           /\ RatEq(RatMul(call.result.value.value, WrapperScale[call.op]), Inner.value)
    /\ (call.op = "convert_pressure_to_bar" /\ call.unit = Some("barg")
            /\ call.value = Sci(0, 0)) =>
           /\ ~call.result.value.none
           /\ RatEq(call.result.value.value, Sci(101325, -5))
    /\ (call.op = "convert_power_to_kw" /\ call.unit = Some("hp")
            /\ call.value = Sci(1, 0)) =>
           /\ ~call.result.value.none
           /\ RatEq(call.result.value.value, Sci(7457, -4))

C24_Witness ==
    /\ call.op = "convert_pressure_to_bar"
    /\ call.unit = Some("barg")
    /\ call.value = Sci(0, 0)
    /\ ~call.result.value.none
    /\ RatEq(call.result.value.value, Sci(101325, -5))

----------------------------------------------------------------------------
(* The gauge-unit test against the gauge units of convert_to_si.           *)

\* the units convert_to_si takes as gauge pressure, spelled out
GaugeSymbols ==
    {<<"p", "s", "i", "g">>, <<"a", "t", "m", "g">>, <<"b", "a", "r", "g">>,
     <<"P", "a", "g">>, <<"k", "P", "a", "g">>, <<"M", "P", "a", "g">>,
     <<"m", "b", "a", "r", "g">>}

\* C27: is_gauge_pressure_unit(u) is True for exactly the unit symbols that
\* convert_to_si treats as gauge pressure under PRESSURE (psig, atmg, barg,
\* Pag, kPag, MPag, mbarg), compared without regard to letter case, and
\* False for every other unit and for a missing unit.
C27_GaugeTestMatchesConverter ==
    /\ {Spell(g) : g \in GaugeSymbols} = gauge_list
    /\ (call.op = "is_gauge_pressure_unit") =>
           (call.result <=>
               /\ ~call.unit.none
               /\ lower(call.unit.value) \in {lower(g) : g \in GaugeSymbols})

----------------------------------------------------------------------------
(* The batch conversion.                                                   *)

IsMultiple == call.op = "convert_multiple_values_to_si"

\* what convert_to_si gives for parameter p of the call
ParamInner(p) ==
    convert_to_si(call.values_dict[p], call.units_dict[p], call.unit_types_dict[p])

ParamComplete(p) == p \in DOMAIN call.units_dict /\ p \in DOMAIN call.unit_types_dict

\* C29: convert_multiple_values_to_si never raises and returns exactly one
\* entry per key of values_dict: (SI value, SI unit) for a parameter with a
\* unit and a unit type that converts, (original value, original unit) for
\* one whose conversion fails, (value, 'unknown') for one lacking a unit or
\* a unit type.
C29_BatchConversion ==
    IsMultiple =>
        /\ ~call.result.raised
        /\ DOMAIN call.result.value = DOMAIN call.values_dict
        /\ \A p \in DOMAIN call.values_dict :
              LET entry == call.result.value[p]
              IN  IF ~ParamComplete(p)
                  THEN entry = <<call.values_dict[p], "unknown">>
                  ELSE IF ParamInner(p).raised
                  THEN entry = <<call.values_dict[p], call.units_dict[p]>>
                  ELSE /\ RatEq(entry[1], ParamInner(p).value)
                       /\ entry[2] = si_base_units[call.unit_types_dict[p]]

C29_Witness ==
    /\ IsMultiple
    /\ DOMAIN call.values_dict = {"P_in", "T_in"}
    /\ DOMAIN call.unit_types_dict = {"P_in", "T_in"}
    /\ DOMAIN call.units_dict = {"P_in", "T_in"}
    /\ call.values_dict["P_in"] = Sci(0, 0)
    /\ call.units_dict["P_in"] = "barg" /\ call.unit_types_dict["P_in"] = "PRESSURE"
    /\ call.units_dict["T_in"] = "nonexistent"
    /\ call.unit_types_dict["T_in"] = "TEMPERATURE"
    /\ RatEq(call.result.value["P_in"][1], Sci(101325, 0))
    /\ call.result.value["P_in"][2] = "N/sqm"
    /\ call.result.value["T_in"] = <<call.values_dict["T_in"], "nonexistent">>

----------------------------------------------------------------------------
(* The block classifier.                                                   *)

IsClassify == call.op = "classify_blocks_from_bkp"

\* the list each category text belongs to; any other text: 'other_blocks'
ExpectedList ==
    [c \in {"Heater", "Cooler", "HeatX", "Condenser"} |-> "heat_exchangers"] @@
    [c \in {"RadFrac", "Distl", "DWSTU"} |-> "distillation_columns"] @@
    [c \in {"RStoic", "RCSTR", "RPlug", "RBatch", "REquil", "RYield"} |-> "reactors"] @@
    [c \in {"Pump", "Compr", "MCompr"} |-> "pumps and compressors"] @@
    [c \in {"Vacuum", "Flash", "Sep"} |-> "vessels"] @@
    [c \in {"Mixer", "FSplit", "Valve"} |-> "Ignore"]

Occurrences(list, name) == Cardinality({i \in DOMAIN list : list[i] = name})

\* C30: classify_blocks_from_bkp partitions the parsed blocks: every block
\* name of block_info is in exactly one of the category lists, chosen only by
\* its parsed category (unrecognized or 'Unknown': 'other_blocks'), the lists
\* hold no name that is not in block_info, and 'vacuum_systems' is empty.
C30_BlocksPartitioned ==
    IsClassify =>
        LET block_categories == call.result[1]
            block_info == call.result[2]
        IN  /\ \A b \in DOMAIN block_info :
                  \A key \in DOMAIN block_categories :
                      Occurrences(block_categories[key], b) =
                          IF key = (IF block_info[b] \in DOMAIN ExpectedList
                                    THEN ExpectedList[block_info[b]]
                                    ELSE "other_blocks")
                          THEN 1 ELSE 0
            /\ \A key \in DOMAIN block_categories :
                  Range(block_categories[key]) \subseteq DOMAIN block_info
            /\ block_categories["vacuum_systems"] = <<>>

C30_Witness ==
    /\ IsClassify
    /\ call.block_names = <<"B2", "B1", "B1">>
    /\ ~call.file.none
    /\ call.file.value = <<<<"B1">>, <<" ", "B2", " ">>, <<" ", "B2", " ">>,
                           <<" ", "B2", " ">>, <<" ", "Vacuum">>>>
    /\ call.result[2] = ("B1" :> "Vacuum" @@ "B2" :> "Vacuum")
    /\ call.result[1]["vessels"] = <<"B2", "B1">>
    /\ call.result[1]["other_blocks"] = <<>>

----------------------------------------------------------------------------
(* The Spinner.                                                            *)

\* C28: for any interleaving of start() and stop() calls on one Spinner, at
\* most one spin thread is alive and writing frames at any time: a thread
\* created by a start() after a stop() never runs alongside the thread of
\* the earlier start().
C28_AtMostOneSpinThread ==
    Cardinality({t \in SpinThreads : Alive(t)}) <= 1

----------------------------------------------------------------------------
(* The tables under the calls, and the shared converter.                   *)

\* the last call repeats the one before it
IsRepeat == prev # NoCall /\ prev.op = call.op /\ call.op \in RepeatableOps

\* C25: after any sequence of calls to convert_to_si, convert_from_si, the
\* convenience wrappers, check_minimum, get_maximum and index_for_year,
\* failing calls included, the SI-unit, unit, conversion-factor, size-limit
\* and escalation tables are unchanged, so a call repeated with the same
\* arguments gives the same outcome.
C25_TablesNeverChange ==
    /\ si_base_units = _get_si_base_units
    /\ conversion_factors = _get_unit_conversion_factors
    /\ unit_table = _get_hardcoded_unit_table
    /\ min_size_limits = MIN_SIZE_LIMITS
    /\ max_size_limits = MAX_SIZE_LIMITS
    /\ cepci_by_year = CEPCI_BY_YEAR
    /\ IsRepeat => call.result = prev.result

C25_Witness ==
    /\ IsRepeat
    /\ call.op = "convert_to_si"
    /\ call.unit = "nonexistent" /\ call.unit_type = "PRESSURE"
    /\ call.result.raised
    /\ prev.result.raised
    /\ conversion_factors = _get_unit_conversion_factors

\* C26: the shared converter is constructed exactly once and published only
\* after construction: every get_unit_converter() call and every
\* module-level wrapper uses the same instance, and under concurrent first
\* access no caller observes a converter whose SI-unit, conversion-factor
\* and unit tables are not all fully built.
C26_ConstructThenPublish ==
    /\ constructions <= 1
    /\ ~_unit_converter.none => (_unit_converter = Some(1) /\ AllBuilt)
    /\ module_body = "imported" => (constructions = 1 /\ _unit_converter = Some(1))
    /\ \A t \in Importers :
          /\ importer[t].pc \in {"ready", "holding"} => module_body = "imported"
          /\ importer[t].pc = "holding" =>
                 /\ importer[t].converter = Some(1)
                 /\ importer[t].complete

C26_Witness ==
    \E t, u \in Importers :
        /\ t # u
        /\ importer[t].pc = "holding" /\ importer[t].waited
        /\ importer[t].via = "get_unit_converter"
        /\ importer[u].pc = "holding" /\ importer[u].via = "convert_to_si_units"
        /\ importer[t].converter = importer[u].converter
        /\ importer[t].complete /\ importer[u].complete

====
